---- MODULE Spec2Model ----
(***************************************************************************)
(* Model of the page-frame census reader of kpageflags-visualizer          *)
(* (src/kpageflags-visualizer/src/main.rs): the four scan functions of     *)
(* KPageFlagsReader, the Ctrl-C handler that sets the shared interrupt     *)
(* flag, the total-memory hint that seeds the sampling range, the          *)
(* classification of a flag word against the catalog, the start of main()  *)
(* and the interactive explorer (src/kpageflags-visualizer/src/tui.rs).    *)
(*                                                                         *)
(* A u64 flag word is modelled as the set of its set bit positions         *)
(* (a subset of 0..63): `flags & mask != 0` for a single-bit mask is       *)
(* `bit \in flags`, and `flags != 0` is `flags # {}`.                      *)
(***************************************************************************)
EXTENDS Integers, Sequences, FiniteSets, TLC

VARIABLES
    table,           \* /proc/kpageflags: the result of reading each PFN
    meminfo,         \* /proc/meminfo, the total-memory hint
    mode,            \* which KPageFlagsReader function main() calls
    start_pfn,       \* --start
    count,           \* --count (NoCount models None / "all")
    sample_size,     \* --sampled
    interrupt_flag,  \* Arc<AtomicBool> shared with the Ctrl-C handler
    pc,              \* position inside the running function
    loc,             \* the local variables of the running function
    status_msg,      \* the status line printed after the loop
    since,           \* history: reads made since the flag was set
    kpageflags,      \* whether /proc/kpageflags exists and can be opened
    exit_status,     \* what main() returned
    page,            \* the PageInfo being classified
    shown,           \* what the classification or the summary printed
    app              \* AppState of the explorer

vars == <<table, meminfo, mode, start_pfn, count, sample_size,
          interrupt_flag, pc, loc, status_msg, since,
          kpageflags, exit_status, page, shown, app>>

----------------------------------------------------------------------------
(* Bounds of the model.  The four thresholds are program constants scaled  *)
(* down so that a scan crosses them within a few records; every formula    *)
(* below is stated in terms of the names, not of the values.               *)

\* const MAX_CONSECUTIVE_FAILURES: u32 = 1000 (main.rs:254, 359, 415)
MAX_CONSECUTIVE_FAILURES == 2
\* the literal 1000 of `pages.len() % 1000 == 0` (main.rs:273, 363, 447)
INTERRUPT_CHECK_INTERVAL == 2
\* the literal 100 of `attempts % 100 == 0` (main.rs:699)
SAMPLE_CHECK_INTERVAL == 2
\* the literal 100_000_000 of the safety check (main.rs:321, 508)
SAFETY_LIMIT == 2
\* number of PFNs the backing table holds; every PFN past it reads as EOF
TableLen == 4
\* number of leading PFNs that may hold a record in a sampling run
SampleTableLen == 2
\* largest --count tried
MaxCount == 7
\* largest --sampled tried that does not overflow
MaxSampleSize == 2

\* `sample_size * 10` (main.rs:695)
ATTEMPT_FACTOR == 10

----------------------------------------------------------------------------
(* The flag catalog, main.rs:38-153.                                       *)

Flag(b, n, c) == [bit |-> b, name |-> n, category |-> c]

PAGE_FLAGS == <<
    Flag(0, "LOCKED", "State"),          Flag(1, "ERROR", "Error"),
    Flag(2, "REFERENCED", "Usage"),      Flag(3, "UPTODATE", "State"),
    Flag(4, "DIRTY", "State"),           Flag(5, "LRU", "Memory"),
    Flag(6, "ACTIVE", "Memory"),         Flag(7, "SLAB", "Allocation"),
    Flag(8, "WRITEBACK", "IO"),          Flag(9, "RECLAIM", "Memory"),
    Flag(10, "BUDDY", "Allocation"),     Flag(11, "MMAP", "Usage"),
    Flag(12, "ANON", "Usage"),           Flag(13, "SWAPCACHE", "Memory"),
    Flag(14, "SWAPBACKED", "Memory"),    Flag(15, "COMPOUND_HEAD", "Structure"),
    Flag(16, "COMPOUND_TAIL", "Structure"), Flag(17, "HUGE", "Structure"),
    Flag(18, "UNEVICTABLE", "Memory"),   Flag(19, "HWPOISON", "Error"),
    Flag(20, "NOPAGE", "State"),         Flag(21, "KSM", "Special"),
    Flag(22, "THP", "Structure"),        Flag(23, "OFFLINE", "State"),
    Flag(24, "ZERO_PAGE", "Special"),    Flag(25, "IDLE", "Usage"),
    Flag(26, "PGTABLE", "Special"),      Flag(32, "RESERVED", "State") >>

FlagIdx == 1..Len(PAGE_FLAGS)

\* enum FlagCategory, main.rs:155-165; `category as usize` is the position
FlagCategory == <<"State", "Memory", "Usage", "Allocation", "IO",
                  "Structure", "Special", "Error">>

CategoryIdx == 0..(Len(FlagCategory) - 1)

CategoryOrd(c) == CHOOSE k \in CategoryIdx : FlagCategory[k + 1] = c

----------------------------------------------------------------------------
(* The backing table and one read of it, main.rs:340-349.                  *)

Some(f) == [res |-> "Some", flags |-> f]
None == [res |-> "None", flags |-> {}]     \* Ok(None): UnexpectedEof
Err == [res |-> "Err", flags |-> {}]       \* Err(_): any other I/O error

\* flag words stored in the tables tried: 0x0 and 0x9 (LOCKED | UPTODATE)
FlagWords == {{}, {0, 3}}

Cells == {None, Err} \cup {Some(f) : f \in FlagWords}

Tables == [0..(TableLen - 1) -> Cells]

\* the tables tried in sampling runs: records only in the leading PFNs
SampleTables == {t \in Tables : \A p \in SampleTableLen..(TableLen - 1) : t[p] = None}

read_page_flags(t, pfn) == IF pfn \in DOMAIN t THEN t[pfn] ELSE None

----------------------------------------------------------------------------
(* Local variables of a scan function.                                     *)

NoCount == -1

InitLocals(start) ==
    [ pfn                  |-> start,
      pages                |-> <<>>,
      consecutive_failures |-> 0,
      total_pages          |-> 0,
      pages_with_flags     |-> 0,
      flag_counts          |-> [i \in FlagIdx |-> 0],
      category_counts      |-> [c \in CategoryIdx |-> 0],
      successful_reads     |-> 0,
      attempts             |-> 0,
      max_attempts         |-> 0,
      estimated_max_pfn    |-> 0,
      reads                |-> 0,       \* calls of read_page_flags so far
      exit                 |-> "running" ]

PageInfo(pfn, flags) == [pfn |-> pfn, flags |-> flags]

\* CountFlags with the per-flag counter indexed by the flag's category
CountFlags_by_category(s, flags) ==
    IF flags # {}
    THEN [s EXCEPT
            !.pages_with_flags = s.pages_with_flags + 1,
            !.flag_counts = [i \in FlagIdx |->
                s.flag_counts[i] + Cardinality({j \in FlagIdx :
                    /\ PAGE_FLAGS[j].bit \in flags
                    /\ CategoryOrd(PAGE_FLAGS[j].category) + 1 = i})],
            !.category_counts = [c \in CategoryIdx |->
                s.category_counts[c] + Cardinality({i \in FlagIdx :
                    /\ PAGE_FLAGS[i].bit \in flags
                    /\ CategoryOrd(PAGE_FLAGS[i].category) = c})]]
    ELSE s

\* CountFlags with a category counted once per record, however many of its
\* flags the record has
CountFlags_category_once(s, flags) ==
    IF flags # {}
    THEN [s EXCEPT
            !.pages_with_flags = s.pages_with_flags + 1,
            !.flag_counts = [i \in FlagIdx |->
                IF PAGE_FLAGS[i].bit \in flags
                THEN s.flag_counts[i] + 1 ELSE s.flag_counts[i]],
            !.category_counts = [c \in CategoryIdx |->
                IF \E i \in FlagIdx :
                    /\ PAGE_FLAGS[i].bit \in flags
                    /\ CategoryOrd(PAGE_FLAGS[i].category) = c
                THEN s.category_counts[c] + 1 ELSE s.category_counts[c]]]
    ELSE s

\* the counting block shared by the summary and the sampling scan,
\* main.rs:462-472 and 717-727
CountFlags(s, flags) ==
    IF flags # {}
    THEN [s EXCEPT
            !.pages_with_flags = s.pages_with_flags + 1,
            !.flag_counts = [i \in FlagIdx |->
                IF PAGE_FLAGS[i].bit \in flags
                THEN s.flag_counts[i] + 1 ELSE s.flag_counts[i]],
            !.category_counts = [c \in CategoryIdx |->
                s.category_counts[c] + Cardinality({i \in FlagIdx :
                    /\ PAGE_FLAGS[i].bit \in flags
                    /\ CategoryOrd(PAGE_FLAGS[i].category) = c})]]
    ELSE s

\* the Ok(None) and Err(_) arms of the three sequential scans: count the
\* failure, break when the run exceeds the threshold
FailedRead(s) ==
    IF s.consecutive_failures + 1 > MAX_CONSECUTIVE_FAILURES
    THEN [s EXCEPT !.consecutive_failures = s.consecutive_failures + 1,
                   !.reads = s.reads + 1,
                   !.exit = "failures"]
    ELSE [s EXCEPT !.consecutive_failures = s.consecutive_failures + 1,
                   !.reads = s.reads + 1,
                   !.pfn = s.pfn + 1]

\* read_range_iter with the range taken one PFN short
read_range_iter_short(t, s, end, flag) ==
    IF s.pfn + 1 >= end THEN [s EXCEPT !.exit = "range_end"]
    ELSE IF (Len(s.pages) % INTERRUPT_CHECK_INTERVAL) = 0 /\ flag
    THEN [s EXCEPT !.exit = "interrupt"]
    ELSE LET r == read_page_flags(t, s.pfn) IN
         IF r.res = "Some"
         THEN [s EXCEPT !.pages = Append(s.pages, PageInfo(s.pfn, r.flags)),
                        !.consecutive_failures = 0,
                        !.reads = s.reads + 1,
                        !.pfn = s.pfn + 1]
         ELSE FailedRead(s)

\* read_range_iter breaking at the first failed read
read_range_iter_stop_at_hole(t, s, end, flag) ==
    IF s.pfn >= end THEN [s EXCEPT !.exit = "range_end"]
    ELSE IF (Len(s.pages) % INTERRUPT_CHECK_INTERVAL) = 0 /\ flag
    THEN [s EXCEPT !.exit = "interrupt"]
    ELSE LET r == read_page_flags(t, s.pfn) IN
         IF r.res = "Some"
         THEN [s EXCEPT !.pages = Append(s.pages, PageInfo(s.pfn, r.flags)),
                        !.consecutive_failures = 0,
                        !.reads = s.reads + 1,
                        !.pfn = s.pfn + 1]
         ELSE [s EXCEPT !.consecutive_failures = s.consecutive_failures + 1,
                        !.reads = s.reads + 1,
                        !.exit = "failures"]

\* one iteration of `for pfn in start_pfn..start_pfn + count`, main.rs:361-392
read_range_iter(t, s, end, flag) ==
    IF s.pfn >= end THEN [s EXCEPT !.exit = "range_end"]
    ELSE IF (Len(s.pages) % INTERRUPT_CHECK_INTERVAL) = 0 /\ flag
    THEN [s EXCEPT !.exit = "interrupt"]
    ELSE LET r == read_page_flags(t, s.pfn) IN
         IF r.res = "Some"
         THEN [s EXCEPT !.pages = Append(s.pages, PageInfo(s.pfn, r.flags)),
                        !.consecutive_failures = 0,
                        !.reads = s.reads + 1,
                        !.pfn = s.pfn + 1]
         ELSE FailedRead(s)

\* one iteration of the `loop` of read_all_pages, main.rs:271-328
read_all_pages_iter(t, s, flag) ==
    IF (Len(s.pages) % INTERRUPT_CHECK_INTERVAL) = 0 /\ flag
    THEN [s EXCEPT !.exit = "interrupt"]
    ELSE LET r == read_page_flags(t, s.pfn) IN
         IF r.res = "Some"
         THEN [s EXCEPT !.pages = Append(s.pages, PageInfo(s.pfn, r.flags)),
                        !.consecutive_failures = 0,
                        !.reads = s.reads + 1,
                        !.pfn = s.pfn + 1,
                        !.exit = IF Len(s.pages) + 1 > SAFETY_LIMIT
                                 THEN "safety" ELSE "running"]
         ELSE FailedRead(s)

\* scan_for_summary_only_iter returning at once when a read fails with an
\* I/O error
scan_for_summary_only_iter_abort_on_error(t, s, end, flag) ==
    IF end # NoCount /\ s.pfn >= end THEN [s EXCEPT !.exit = "range_end"]
    ELSE IF (s.total_pages % INTERRUPT_CHECK_INTERVAL) = 0 /\ flag
    THEN [s EXCEPT !.exit = "interrupt"]
    ELSE LET r == read_page_flags(t, s.pfn) IN
         IF r.res = "Some"
         THEN [CountFlags(s, r.flags) EXCEPT
                        !.total_pages = s.total_pages + 1,
                        !.consecutive_failures = 0,
                        !.reads = s.reads + 1,
                        !.pfn = s.pfn + 1,
                        !.exit = IF s.total_pages + 1 > SAFETY_LIMIT
                                 THEN "safety" ELSE "running"]
         ELSE IF r.res = "Err"
         THEN [s EXCEPT !.reads = s.reads + 1, !.exit = "failures"]
         ELSE FailedRead(s)

\* one iteration of the `loop` of scan_for_summary_only, main.rs:441-515;
\* end is NoCount for count = None (end_pfn = u64::MAX)
scan_for_summary_only_iter(t, s, end, flag) ==
    IF end # NoCount /\ s.pfn >= end THEN [s EXCEPT !.exit = "range_end"]
    ELSE IF (s.total_pages % INTERRUPT_CHECK_INTERVAL) = 0 /\ flag
    THEN [s EXCEPT !.exit = "interrupt"]
    ELSE LET r == read_page_flags(t, s.pfn) IN
         IF r.res = "Some"
         THEN [CountFlags(s, r.flags) EXCEPT
                        !.total_pages = s.total_pages + 1,
                        !.consecutive_failures = 0,
                        !.reads = s.reads + 1,
                        !.pfn = s.pfn + 1,
                        !.exit = IF s.total_pages + 1 > SAFETY_LIMIT
                                 THEN "safety" ELSE "running"]
         ELSE FailedRead(s)

\* a scan function run to completion with the flag held at one value
RECURSIVE RunReadRange(_, _, _, _)
RunReadRange(t, s, end, flag) ==
    IF s.exit # "running" THEN s
    ELSE RunReadRange(t, read_range_iter(t, s, end, flag), end, flag)

RECURSIVE RunReadAllPages(_, _, _)
RunReadAllPages(t, s, flag) ==
    IF s.exit # "running" THEN s
    ELSE RunReadAllPages(t, read_all_pages_iter(t, s, flag), flag)

RECURSIVE RunSummary(_, _, _, _)
RunSummary(t, s, end, flag) ==
    IF s.exit # "running" THEN s
    ELSE RunSummary(t, scan_for_summary_only_iter(t, s, end, flag), end, flag)

\* KPageFlagsReader::read_range, main.rs:351-395: the Vec it returns
read_range(t, start, cnt, flag) ==
    RunReadRange(t, InitLocals(start), start + cnt, flag).pages

\* KPageFlagsReader::read_all_pages, main.rs:246-338: the Vec it returns
read_all_pages(t, start, flag) ==
    RunReadAllPages(t, InitLocals(start), flag).pages

\* start_pfn + c of `count.map(|c| start_pfn + c)`, main.rs:439
EndPfn(start, cnt) == IF cnt = NoCount THEN NoCount ELSE start + cnt

----------------------------------------------------------------------------
(* The total-memory hint and the sampling range, main.rs:15-35, 790-831.   *)

Ok(n) == [ok |-> TRUE, pages |-> n]
Failed == [ok |-> FALSE, pages |-> 0]

Unopenable == [kind |-> "unopenable", kb |-> 0]    \* File::open fails
NoMemTotal == [kind |-> "no_memtotal", kb |-> 0]   \* no "MemTotal:" line
Unparsable == [kind |-> "unparsable", kb |-> 0]    \* parts[1].parse() fails
MemTotal(kb) == [kind |-> "memtotal", kb |-> kb]   \* "MemTotal: <kb> kB"

\* get_estimated_total_pages, main.rs:15-35
get_estimated_total_pages(m) ==
    CASE m.kind = "unopenable" -> Failed
      [] m.kind = "unparsable" -> Failed
      [] m.kind = "memtotal"   -> Ok((m.kb * 1024) \div 4096)
      [] OTHER                 -> Ok(1048576)

MaxOf(S) == CHOOSE x \in S : \A y \in S : y <= x

\* the `while high - low > 1000` loop of binary_search_max_pfn and its
\* result, main.rs:810-830
RECURSIVE BinarySearchLoop(_, _, _, _)
BinarySearchLoop(t, low, high, last_valid) ==
    IF high - low > 1000
    THEN LET mid == (low + high) \div 2
             valid == {offset \in 0..9 :
                          read_page_flags(t, mid + offset).res = "Some"}
             lv == IF valid = {} THEN last_valid ELSE mid + MaxOf(valid)
         IN  IF valid # {}
             THEN BinarySearchLoop(t, mid, high, lv)
             ELSE BinarySearchLoop(t, low, mid, lv)
    ELSE IF last_valid + 10000 > 1000000
         THEN last_valid + 10000 ELSE 1000000

\* binary_search_max_pfn, main.rs:804-831
binary_search_max_pfn(t) == BinarySearchLoop(t, 0, 100000000, 0)

\* estimate_max_pfn, main.rs:790-801
estimate_max_pfn(m, t) ==
    LET hint == get_estimated_total_pages(m)
    IN  IF hint.ok THEN hint.pages ELSE binary_search_max_pfn(t)

\* rng.gen_range(0..max), main.rs:710.  Every PFN >= TableLen reads as
\* EOF, so TableLen stands for all of them.
GenRange(max) == {p \in 0..TableLen : p < max}

\* u32 multiplication, computed on 16-bit halves: does a * k exceed
\* u32::MAX, and the wrapped product a * k mod 2^32
MulHighU32(a, k) == ((a \div 2^16) * k) + (((a % 2^16) * k) \div 2^16)

MulOverflowsU32(a, k) == MulHighU32(a, k) >= 2^16

WrappingMulU32(a, k) ==
    ((MulHighU32(a, k) % 2^16) * 2^16) + (((a % 2^16) * k) % 2^16)

\* scan_sampled_summary_iter polling the flag on the number of samples,
\* as the sequential scans do, instead of the number of attempts
scan_sampled_summary_iter_poll_samples(t, s, n, flag, random_pfn) ==
    IF ~(s.successful_reads < n /\ s.attempts < s.max_attempts)
    THEN [s EXCEPT !.exit = "loop_end"]
    ELSE IF (s.successful_reads % SAMPLE_CHECK_INTERVAL) = 0 /\ flag
    THEN [s EXCEPT !.exit = "interrupt"]
    ELSE IF s.estimated_max_pfn = 0
    THEN [s EXCEPT !.exit = "panic"]
    ELSE LET r == read_page_flags(t, random_pfn) IN
         IF r.res = "Some"
         THEN [CountFlags(s, r.flags) EXCEPT
                        !.successful_reads = s.successful_reads + 1,
                        !.attempts = s.attempts + 1,
                        !.reads = s.reads + 1]
         ELSE [s EXCEPT !.attempts = s.attempts + 1,
                        !.reads = s.reads + 1]

\* scan_sampled_summary_iter counting an attempt only when the read fails
scan_sampled_summary_iter_attempt_on_failure(t, s, n, flag, random_pfn) ==
    IF ~(s.successful_reads < n /\ s.attempts < s.max_attempts)
    THEN [s EXCEPT !.exit = "loop_end"]
    ELSE IF (s.attempts % SAMPLE_CHECK_INTERVAL) = 0 /\ flag
    THEN [s EXCEPT !.exit = "interrupt"]
    ELSE IF s.estimated_max_pfn = 0
    THEN [s EXCEPT !.exit = "panic"]
    ELSE LET r == read_page_flags(t, random_pfn) IN
         IF r.res = "Some"
         THEN [CountFlags(s, r.flags) EXCEPT
                        !.successful_reads = s.successful_reads + 1,
                        !.reads = s.reads + 1]
         ELSE [s EXCEPT !.attempts = s.attempts + 1,
                        !.reads = s.reads + 1]

\* one iteration of the `while` of scan_sampled_summary, main.rs:697-749
scan_sampled_summary_iter(t, s, n, flag, random_pfn) ==
    IF ~(s.successful_reads < n /\ s.attempts < s.max_attempts)
    THEN [s EXCEPT !.exit = "loop_end"]
    ELSE IF (s.attempts % SAMPLE_CHECK_INTERVAL) = 0 /\ flag
    THEN [s EXCEPT !.exit = "interrupt"]
    ELSE IF s.estimated_max_pfn = 0
    THEN [s EXCEPT !.exit = "panic"]  \* gen_range panics on an empty range
    ELSE LET r == read_page_flags(t, random_pfn) IN
         IF r.res = "Some"
         THEN [CountFlags(s, r.flags) EXCEPT
                        !.successful_reads = s.successful_reads + 1,
                        !.attempts = s.attempts + 1,
                        !.reads = s.reads + 1]
         ELSE [s EXCEPT !.attempts = s.attempts + 1,
                        !.reads = s.reads + 1]

----------------------------------------------------------------------------
(* The status line printed after the loop.                                 *)

Msg(k, n) == [kind |-> k, count |-> n]
NoMsg == Msg("none", 0)

\* StatusMsg reporting the number of PFNs processed instead of those read
StatusMsg_processed(m, s, n, flag) ==
    IF m = "read_range" THEN NoMsg
    ELSE Msg(IF flag THEN "interrupted"
             ELSE IF m = "scan_sampled_summary" /\ s.successful_reads < n
             THEN "completed_sparse" ELSE "completed", s.reads)

\* main.rs:330-334 (read_all_pages), 517-524 (scan_for_summary_only),
\* 751-763 (scan_sampled_summary); read_range prints none
StatusMsg(m, s, n, flag) ==
    CASE m = "read_all_pages" ->
            Msg(IF flag THEN "interrupted" ELSE "completed", Len(s.pages))
      [] m = "scan_for_summary_only" ->
            Msg(IF flag THEN "interrupted" ELSE "completed", s.total_pages)
      [] m = "scan_sampled_summary" ->
            Msg(IF flag THEN "interrupted"
                ELSE IF s.successful_reads < n THEN "completed_sparse"
                ELSE "completed", s.successful_reads)
      [] OTHER -> NoMsg

----------------------------------------------------------------------------
(* The state machine: main() calls one function of the reader, the Ctrl-C  *)
(* handler may set the flag at any moment.                                 *)

StartPfns == {0, 1}
Counts == 0..MaxCount
\* u32::MAX / 10 + 1: the smallest sample size whose tenfold overflows u32
OverflowingSampleSize == 429496729 + 1
SampleSizes == (0..MaxSampleSize) \cup {OverflowingSampleSize}
MemInfos == {Unopenable, NoMemTotal, MemTotal(0), MemTotal(4 * TableLen)}

\* successful reads so far, whichever counter the mode keeps
OkReads(s) == Len(s.pages) + s.total_pages + s.successful_reads

NoSince == [reads |-> 0, ok |-> 0]

Since(s, t) ==
    IF interrupt_flag
    THEN [reads |-> since.reads + (t.reads - s.reads),
          ok    |-> since.ok + (OkReads(t) - OkReads(s))]
    ELSE NoSince

\* the value of a variable that the specification at hand does not use
Unused == [kind |-> "unused"]

\* the census reader alone: main() has opened the table, no record is
\* classified and the explorer does not run
ReaderOnly ==
    /\ kpageflags = "present"
    /\ exit_status = "running"
    /\ page = Unused
    /\ shown = Unused
    /\ app = Unused

Init ==
    /\ ReaderOnly
    /\ mode \in {"read_range", "read_all_pages", "scan_for_summary_only",
                 "scan_sampled_summary"}
    /\ table \in IF mode = "scan_sampled_summary" THEN SampleTables ELSE Tables
    /\ start_pfn \in IF mode = "scan_sampled_summary" THEN {0} ELSE StartPfns
    /\ count \in CASE mode = "read_range" -> Counts
                   [] mode = "scan_for_summary_only" -> Counts \cup {NoCount}
                   [] OTHER -> {NoCount}
    /\ sample_size \in IF mode = "scan_sampled_summary"
                       THEN SampleSizes ELSE {0}
    /\ meminfo \in IF mode = "scan_sampled_summary"
                   THEN MemInfos ELSE {NoMemTotal}
    /\ interrupt_flag = FALSE
    /\ pc = IF mode = "scan_sampled_summary" THEN "estimate" ELSE "loop"
    /\ loc = InitLocals(start_pfn)
    /\ status_msg = NoMsg
    /\ since = NoSince

\* what no step of a scan function writes
Inputs == <<table, meminfo, mode, start_pfn, count, sample_size,
            kpageflags, exit_status, page, shown, app>>

\* the top of an iteration, up to and including the load of the flag: the
\* loop ends, or the body runs (pc = "read")
AfterCheck(s) ==
    /\ loc' = IF s.exit \in {"range_end", "loop_end", "interrupt"}
              THEN s ELSE loc
    /\ pc' = IF s.exit \in {"range_end", "loop_end", "interrupt"}
             THEN "exited" ELSE "read"
    /\ UNCHANGED <<Inputs, interrupt_flag, status_msg, since>>

\* the rest of the iteration, from the read to the bottom of the loop
AfterRead(s) ==
    /\ loc' = s
    /\ pc' = CASE s.exit = "running" -> "loop"
               [] s.exit = "panic"   -> "panic"
               [] OTHER              -> "exited"
    /\ since' = Since(loc, s)
    /\ UNCHANGED <<Inputs, interrupt_flag, status_msg>>

\* ctrlc::set_handler, main.rs:1337-1339
Interrupt ==
    /\ ~interrupt_flag
    /\ pc \notin {"done", "panic", "returned"}
    /\ interrupt_flag' = TRUE
    /\ UNCHANGED <<Inputs, pc, loc, status_msg, since>>

ReadRangeCheck ==
    /\ mode = "read_range" /\ pc = "loop"
    /\ AfterCheck(read_range_iter(table, loc, start_pfn + count,
                                  interrupt_flag))

ReadRangeRead ==
    /\ mode = "read_range" /\ pc = "read"
    /\ AfterRead(read_range_iter(table, loc, start_pfn + count, FALSE))

ReadAllPagesCheck ==
    /\ mode = "read_all_pages" /\ pc = "loop"
    /\ AfterCheck(read_all_pages_iter(table, loc, interrupt_flag))

ReadAllPagesRead ==
    /\ mode = "read_all_pages" /\ pc = "read"
    /\ AfterRead(read_all_pages_iter(table, loc, FALSE))

SummaryCheck ==
    /\ mode = "scan_for_summary_only" /\ pc = "loop"
    /\ AfterCheck(scan_for_summary_only_iter(table, loc,
                      EndPfn(start_pfn, count), interrupt_flag))

SummaryRead ==
    /\ mode = "scan_for_summary_only" /\ pc = "read"
    /\ AfterRead(scan_for_summary_only_iter(table, loc,
                     EndPfn(start_pfn, count), FALSE))

\* scan_sampled_summary up to its loop, main.rs:675-695.  `sample_size * 10`
\* panics in a build with overflow checks and wraps in one without.
SampleStart ==
    /\ mode = "scan_sampled_summary" /\ pc = "estimate"
    /\ \E wraps \in IF MulOverflowsU32(sample_size, ATTEMPT_FACTOR)
                    THEN BOOLEAN ELSE {TRUE} :
          /\ loc' = [loc EXCEPT
                       !.estimated_max_pfn = estimate_max_pfn(meminfo, table),
                       !.max_attempts =
                           IF wraps
                           THEN WrappingMulU32(sample_size, ATTEMPT_FACTOR)
                           ELSE 0,
                       !.exit = IF wraps THEN "running" ELSE "panic"]
          /\ pc' = IF wraps THEN "loop" ELSE "panic"
    /\ UNCHANGED <<Inputs, interrupt_flag, status_msg, since>>

\* the loop condition and the poll of the flag; no PFN is drawn yet
SampleCheck ==
    /\ mode = "scan_sampled_summary" /\ pc = "loop"
    /\ AfterCheck(scan_sampled_summary_iter(table, loc, sample_size,
                                            interrupt_flag, 0))

SampleRead ==
    /\ mode = "scan_sampled_summary" /\ pc = "read"
    /\ \E random_pfn \in IF loc.estimated_max_pfn = 0 THEN {0}
                         ELSE GenRange(loc.estimated_max_pfn) :
          AfterRead(scan_sampled_summary_iter(table, loc, sample_size,
                                              FALSE, random_pfn))

\* the code after the loop: the status line, then the function returns
Report ==
    /\ pc = "exited"
    /\ status_msg' = StatusMsg(mode, loc, sample_size, interrupt_flag)
    /\ pc' = "done"
    /\ UNCHANGED <<Inputs, interrupt_flag, loc, since>>

Next ==
    \/ Interrupt
    \/ ReadRangeCheck
    \/ ReadRangeRead
    \/ ReadAllPagesCheck
    \/ ReadAllPagesRead
    \/ SummaryCheck
    \/ SummaryRead
    \/ SampleStart
    \/ SampleCheck
    \/ SampleRead
    \/ Report

Spec == Init /\ [][Next]_vars

----------------------------------------------------------------------------
(* f64 arithmetic, IEEE 754 binary64 with round-to-nearest-even, for the   *)
(* values the program computes with: zero and the positive normal numbers. *)
(* A number is m * 2^e with a 53-bit significand m = hi * 2^28 + lo,       *)
(* 2^52 <= m < 2^53, held in two limbs so that no intermediate exceeds     *)
(* 31 bits.                                                                *)

F64(hi, lo, e) == [hi |-> hi, lo |-> lo, e |-> e]

F64Zero == F64(0, 0, 0)

RECURSIVE BitLen(_)
BitLen(n) == IF n = 0 THEN 0 ELSE 1 + BitLen(n \div 2)

\* `n as f64` for an integer 0 <= n < 2^31: exact
F64FromInt(n) ==
    IF n = 0 THEN F64Zero
    ELSE LET shift == 53 - BitLen(n)
         IN  IF shift >= 28
             THEN F64(n * 2^(shift - 28), 0, -shift)
             ELSE F64(n \div 2^(28 - shift),
                      (n % 2^(28 - shift)) * 2^shift, -shift)

\* the double nearest to (q + f) * 2^e, ties to even, for an integer
\* q = qh * 2^28 + ql with 2^53 <= q < 2^55 and a fraction 0 <= f < 1 that
\* is non-zero iff sticky
F64Round(qh, ql, sticky, e) ==
    LET two   == qh >= 2^26            \* q >= 2^54: two bits are dropped
        mh    == IF two THEN qh \div 4 ELSE qh \div 2
        ml    == IF two THEN (ql \div 4) + ((qh % 4) * 2^26)
                        ELSE (ql \div 2) + ((qh % 2) * 2^27)
        guard == IF two THEN (ql \div 2) % 2 ELSE ql % 2
        rest  == IF two THEN (ql % 2) = 1 \/ sticky ELSE sticky
        up    == guard = 1 /\ (rest \/ (ml % 2) = 1)
        ex    == IF two THEN e + 2 ELSE e + 1
    IN  IF ~up THEN F64(mh, ml, ex)
        ELSE IF ml + 1 < 2^28 THEN F64(mh, ml + 1, ex)
        ELSE IF mh + 1 < 2^25 THEN F64(mh + 1, 0, ex)
        ELSE F64(2^24, 0, ex + 1)

\* a * b
F64Mul(a, b) ==
    IF a = F64Zero \/ b = F64Zero THEN F64Zero
    ELSE LET B  == 2^14
             a0 == a.lo % B
             a1 == a.lo \div B
             a2 == a.hi % B
             a3 == a.hi \div B
             b0 == b.lo % B
             b1 == b.lo \div B
             b2 == b.hi % B
             b3 == b.hi \div B
             t0 == a0 * b0
             t1 == (a0 * b1) + (a1 * b0) + (t0 \div B)
             t2 == (a0 * b2) + (a1 * b1) + (a2 * b0) + (t1 \div B)
             t3 == (a0 * b3) + (a1 * b2) + (a2 * b1) + (a3 * b0) + (t2 \div B)
             t4 == (a1 * b3) + (a2 * b2) + (a3 * b1) + (t3 \div B)
             t5 == (a2 * b3) + (a3 * b2) + (t4 \div B)
             t6 == (a3 * b3) + (t5 \div B)
             \* the product is x2 * 2^98 + x1 * 2^70 + x0 * 2^42 + low
             x0 == (t3 % B) + ((t4 % B) * B)
             x1 == (t5 % B) + ((t6 % B) * B)
             x2 == t6 \div B
             low == (t0 % B) + (t1 % B) + (t2 % B)
         IN  F64Round((x1 \div 2^9) + (x2 * 2^19),
                      (x0 \div 2^9) + ((x1 % 2^9) * 2^19),
                      (x0 % 2^9) # 0 \/ low # 0,
                      a.e + b.e + 51)

\* one step of the long division of F64Div: the next quotient bit of r / d,
\* for the remainder r = <<s[1], s[2]>> < d = <<dh, dl>> and the quotient
\* so far q = <<s[3], s[4]>>
F64DivStep(s, dh, dl) ==
    LET r2l == (2 * s[2]) % 2^28
        r2h == (2 * s[1]) + ((2 * s[2]) \div 2^28)
        q2l == (2 * s[4]) % 2^28
        q2h == (2 * s[3]) + ((2 * s[4]) \div 2^28)
    IN  IF r2h < dh \/ (r2h = dh /\ r2l < dl)
        THEN <<r2h, r2l, q2h, q2l>>
        ELSE IF r2l >= dl
        THEN <<r2h - dh, r2l - dl, q2h, q2l + 1>>
        ELSE <<r2h - dh - 1, (r2l + 2^28) - dl, q2h, q2l + 1>>

\* n steps of it.  A remainder is never negative: the test of s[1] has the
\* step computed before the next one is entered.
RECURSIVE F64DivLoop(_, _, _, _)
F64DivLoop(s, dh, dl, n) ==
    IF n = 0 \/ s[1] < 0 THEN s
    ELSE F64DivLoop(F64DivStep(s, dh, dl), dh, dl, n - 1)

\* a / b for b # 0
F64Div(a, b) ==
    IF a = F64Zero THEN F64Zero
    ELSE LET s0 == IF a.hi < b.hi \/ (a.hi = b.hi /\ a.lo < b.lo)
                   THEN <<a.hi, a.lo, 0, 0>>
                   ELSE IF a.lo >= b.lo
                   THEN <<a.hi - b.hi, a.lo - b.lo, 0, 1>>
                   ELSE <<a.hi - b.hi - 1, (a.lo + 2^28) - b.lo, 0, 1>>
             s  == F64DivLoop(s0, b.hi, b.lo, 54)
         IN  F64Round(s[3], s[4], s[1] # 0 \/ s[2] # 0, a.e - b.e - 54)

\* a < b
F64Lt(a, b) ==
    IF b = F64Zero THEN FALSE
    ELSE IF a = F64Zero THEN TRUE
    ELSE \/ a.e < b.e
         \/ a.e = b.e /\ a.hi < b.hi
         \/ a.e = b.e /\ a.hi = b.hi /\ a.lo < b.lo

\* Op applied to the value of x.  The value is computed once, where a
\* definition of LET is computed again wherever it is used.
Bind(x, Op(_)) == CHOOSE r \in {Op(v) : v \in {x}} : TRUE

\* a.min(b) and a.max(b)
F64Min(a, b) ==
    Bind(a, LAMBDA x : Bind(b, LAMBDA y : IF F64Lt(y, x) THEN y ELSE x))

F64Max(a, b) ==
    Bind(a, LAMBDA x : Bind(b, LAMBDA y : IF F64Lt(x, y) THEN y ELSE x))

\* `a as i64`, `a as u64`, `a as usize`: the integer part, for a < 2^30
F64ToInt(a) ==
    Bind(a, LAMBDA x :
        IF x = F64Zero \/ x.e <= -53 THEN 0
        ELSE IF x.e <= -28 THEN x.hi \div 2^((-x.e) - 28)
        ELSE (x.hi * 2^(28 + x.e)) + (x.lo \div 2^(-x.e)))

\* twice the significand of b shifted right by d bits, 0 <= d < 56, as
\* <<high limb, low limb, some dropped bit is set>>
F64Shifted(b, d) ==
    LET l2 == (2 * b.lo) % 2^28
        h2 == (2 * b.hi) + ((2 * b.lo) \div 2^28)
    IN  IF d < 28
        THEN <<h2 \div 2^d,
               (l2 \div 2^d) + ((h2 % 2^d) * 2^(28 - d)),
               (l2 % 2^d) # 0>>
        ELSE <<0, h2 \div 2^(d - 28),
               l2 # 0 \/ (h2 % 2^(d - 28)) # 0>>

\* a + b
F64Add(a, b) ==
    IF a = F64Zero THEN b
    ELSE IF b = F64Zero THEN a
    ELSE LET x == IF a.e >= b.e THEN a ELSE b      \* the larger exponent
             y == IF a.e >= b.e THEN b ELSE a
             d == x.e - y.e
         IN  IF d >= 56 THEN x
             ELSE LET s  == F64Shifted(y, d)
                      xl == (2 * x.lo) % 2^28
                      xh == (2 * x.hi) + ((2 * x.lo) \div 2^28)
                      sl == xl + s[2]
                  IN  F64Round(xh + s[1] + (sl \div 2^28), sl % 2^28,
                               s[3], x.e - 1)

----------------------------------------------------------------------------
(* Classification of one flag word against the catalog, main.rs:173-226,   *)
(* and the listing of the records of a full scan, main.rs:1024-1075.       *)

\* w + (1 << b) on u64 words held as sets of bit positions
RECURSIVE AddBit(_, _)
AddBit(w, b) ==
    IF b > 63 THEN w
    ELSE IF b \in w THEN AddBit(w \ {b}, b + 1)
    ELSE w \cup {b}

\* the sum of the masks of the first k catalog entries
RECURSIVE SumMasks(_)
SumMasks(k) ==
    IF k = 0 THEN {} ELSE AddBit(SumMasks(k - 1), PAGE_FLAGS[k].bit)

\* PAGE_FLAGS.iter().filter(|(flag, ..)| self.flags & flag != 0)
Matched(p) == SelectSeq(PAGE_FLAGS, LAMBDA f : f.bit \in p.flags)

\* get_flag_names that stops at the first matching entry
get_flag_names_first(p) ==
    LET m == Matched(p)
    IN  IF m = <<>> THEN <<>> ELSE <<m[1].name>>

\* PageInfo::get_flag_names, main.rs:178-184
get_flag_names(p) ==
    LET m == Matched(p)
    IN  [i \in 1..Len(m) |-> m[i].name]

\* the `for bit in 0..64` loop of get_unknown_flags, main.rs:218-224
RECURSIVE UnknownBits(_, _)
UnknownBits(unknown_flags, bit) ==
    IF bit >= 64 THEN <<>>
    ELSE (IF bit \in unknown_flags THEN <<bit>> ELSE <<>>)
         \o UnknownBits(unknown_flags, bit + 1)

\* get_unknown_flags without the `self.flags &`: every unnamed bit
get_unknown_flags_all_unnamed(p) ==
    UnknownBits((0..63) \ SumMasks(Len(PAGE_FLAGS)), 0)

\* get_unknown_flags with a known mask that covers the low 32 bits only
get_unknown_flags_low_known(p) ==
    LET known_flags == {PAGE_FLAGS[k].bit : k \in FlagIdx} \cap (0..31)
    IN  UnknownBits(p.flags \ known_flags, 0)

\* get_unknown_flags that takes bits 0..31 for known, named or not
get_unknown_flags_high_only(p) ==
    UnknownBits(p.flags \ (SumMasks(Len(PAGE_FLAGS)) \cup (0..31)), 0)

\* PageInfo::get_unknown_flags, main.rs:214-225
get_unknown_flags(p) ==
    LET known_flags == SumMasks(Len(PAGE_FLAGS))
        unknown_flags == p.flags \ known_flags
    IN  UnknownBits(unknown_flags, 0)

NoFlagNames == [called |-> FALSE, value |-> <<>>]
Returned(v) == [called |-> TRUE, value |-> v]

\* --limit, default 1000 (main.rs:1392)
output_limit == 1000

\* print_page_info, not verbose, main.rs:1024-1075: the names it prints for
\* one record, the named flags first and then the unknown bits
print_page_info(p) ==
    IF p.flags = {}
    THEN [pfn |-> p.pfn, flag_names |-> <<>>, unknown_flags |-> <<>>]
    ELSE [pfn |-> p.pfn,
          flag_names |-> get_flag_names(p),
          unknown_flags |-> get_unknown_flags(p)]

\* largest number of set bits of the flag words classified
MaxSetBits == 2

RECURSIVE WordsUpTo(_)
WordsUpTo(k) ==
    IF k = 0 THEN {{}}
    ELSE LET S == WordsUpTo(k - 1)
         IN  S \cup {w \cup {b} : w \in S, b \in 0..63}

\* 0xFFFFFFFF00000000
HighWord == 32..63

\* the flag words of the scenario table: 0x0, 0x1, 0x3, 0x20 and HighWord
ScenarioTable ==
    [pfn \in 0..4 |-> Some(CASE pfn = 0 -> {}
                            [] pfn = 1 -> {0}
                            [] pfn = 2 -> {0, 1}
                            [] pfn = 3 -> {5}
                            [] OTHER   -> HighWord)]

ClassifyWords == WordsUpTo(MaxSetBits) \cup {HighWord}

\* the reader does not run
ReaderIdle ==
    /\ table = <<>>
    /\ meminfo = NoMemTotal
    /\ start_pfn = 0
    /\ count = NoCount
    /\ sample_size = 0
    /\ interrupt_flag = FALSE
    /\ loc = InitLocals(0)
    /\ status_msg = NoMsg
    /\ since = NoSince
    /\ kpageflags = "present"
    /\ exit_status = "running"

Reader == <<table, meminfo, mode, start_pfn, count, sample_size,
            interrupt_flag, loc, status_msg, since, kpageflags, exit_status>>

\* one PageInfo and the two classification methods applied to it
ClassifyInit ==
    /\ ReaderIdle
    /\ mode = "classify"
    /\ pc = "classify"
    /\ page \in {PageInfo(0, w) : w \in ClassifyWords}
    /\ shown = [flag_names |-> NoFlagNames, unknown_flags |-> NoFlagNames]
    /\ app = Unused

GetFlagNames ==
    /\ pc = "classify"
    /\ ~shown.flag_names.called
    /\ shown' = [shown EXCEPT !.flag_names = Returned(get_flag_names(page))]
    /\ UNCHANGED <<Reader, pc, page, app>>

GetUnknownFlags ==
    /\ pc = "classify"
    /\ ~shown.unknown_flags.called
    /\ shown' = [shown EXCEPT
                    !.unknown_flags = Returned(get_unknown_flags(page))]
    /\ UNCHANGED <<Reader, pc, page, app>>

ClassifyNext ==
    \/ GetFlagNames
    \/ GetUnknownFlags

ClassifySpec == ClassifyInit /\ [][ClassifyNext]_vars

\* main() reading the scenario table with read_range and listing the
\* records it returned, main.rs:1516-1586
ScenarioInit ==
    /\ table = ScenarioTable
    /\ meminfo = NoMemTotal
    /\ mode = "read_range"
    /\ start_pfn \in StartPfns
    /\ count \in Counts
    /\ sample_size = 0
    /\ interrupt_flag = FALSE
    /\ pc = "loop"
    /\ loc = InitLocals(start_pfn)
    /\ status_msg = NoMsg
    /\ since = NoSince
    /\ kpageflags = "present"
    /\ exit_status = "running"
    /\ page = Unused
    /\ shown = <<>>
    /\ app = Unused

\* one round of `for page in pages_to_show`, main.rs:1568-1571
PrintPageInfo ==
    /\ pc = "done"
    /\ Len(shown) < Len(loc.pages)
    /\ Len(shown) < output_limit
    /\ shown' = Append(shown, print_page_info(loc.pages[Len(shown) + 1]))
    /\ UNCHANGED <<Reader, pc, page, app>>

ScenarioNext ==
    \/ Interrupt
    \/ ReadRangeCheck
    \/ ReadRangeRead
    \/ Report
    \/ PrintPageInfo

ScenarioSpec == ScenarioInit /\ [][ScenarioNext]_vars

----------------------------------------------------------------------------
(* The extrapolation of print_sampled_summary, main.rs:846-938.            *)

\* print_sampled_summary with the factor truncated to an integer
print_sampled_summary_integer_factor(samples_collected, pages_with_flags, flag_counts, estimated_total_pages) ==
    LET factor == estimated_total_pages \div samples_collected
    IN  [ estimated_pages_with_flags |-> pages_with_flags * factor,
          flag_data |->
              [i \in {j \in FlagIdx : flag_counts[j] > 0} |->
                  [count |-> flag_counts[i],
                   estimated_total |-> flag_counts[i] * factor]] ]

\* what print_sampled_summary prints of the extrapolation, for
\* samples_collected > 0: the estimated pages with flags (main.rs:892) and,
\* for each flag with a non-zero count, the count and the estimated total
\* (main.rs:901-924)
print_sampled_summary(samples_collected, pages_with_flags, flag_counts, estimated_total_pages) ==
    LET extrapolation_factor ==
            F64Div(F64FromInt(estimated_total_pages),
                   F64FromInt(samples_collected))
    IN  [ estimated_pages_with_flags |->
              F64ToInt(F64Mul(F64FromInt(pages_with_flags),
                              extrapolation_factor)),
          flag_data |->
              [i \in {j \in FlagIdx : flag_counts[j] > 0} |->
                  [count |-> flag_counts[i],
                   estimated_total |->
                       F64ToInt(F64Mul(F64FromInt(flag_counts[i]),
                                       extrapolation_factor))]] ]

\* largest number of samples collected in the summaries extrapolated
MaxSamples == 30

\* the end of a sampling scan that collected n samples, c of them with the
\* flags LOCKED and UPTODATE set (the word 0x9)
SampledLocals(n, c, est) ==
    [InitLocals(0) EXCEPT
        !.successful_reads  = n,
        !.attempts          = n,
        !.max_attempts      = ATTEMPT_FACTOR * n,
        !.reads             = n,
        !.pages_with_flags  = c,
        !.flag_counts       = [i \in FlagIdx |->
                                 IF PAGE_FLAGS[i].bit \in {0, 3}
                                 THEN c ELSE 0],
        !.category_counts   = [k \in CategoryIdx |->
                                 IF k = CategoryOrd("State")
                                 THEN 2 * c ELSE 0],
        !.estimated_max_pfn = est,
        !.exit              = "loop_end"]

ExtrapolateInit ==
    /\ table = <<>>
    /\ meminfo \in MemInfos \ {MemTotal(0)}
    /\ mode = "scan_sampled_summary"
    /\ start_pfn = 0
    /\ count = NoCount
    /\ sample_size \in 1..MaxSamples
    /\ interrupt_flag = FALSE
    /\ pc = "done"
    /\ \E c \in 0..sample_size :
          loc = SampledLocals(sample_size, c,
                              estimate_max_pfn(meminfo, table))
    /\ status_msg = Msg("completed", sample_size)
    /\ since = NoSince
    /\ kpageflags = "present"
    /\ exit_status = "running"
    /\ page = Unused
    /\ shown = Unused
    /\ app = Unused

\* the call of print_sampled_summary that ends scan_sampled_summary,
\* main.rs:777-786
PrintSampledSummary ==
    /\ mode = "scan_sampled_summary"
    /\ pc = "done"
    /\ loc.successful_reads > 0
    /\ shown' = print_sampled_summary(loc.successful_reads,
                                      loc.pages_with_flags, loc.flag_counts,
                                      loc.estimated_max_pfn)
    /\ pc' = "returned"
    /\ UNCHANGED <<Reader, page, app>>

ExtrapolateNext == PrintSampledSummary

ExtrapolateSpec == ExtrapolateInit /\ [][ExtrapolateNext]_vars

----------------------------------------------------------------------------
(* The start of main(), main.rs:1446-1463, and the end of it.              *)

\* the tables and inputs tried from the start of main()
StartupInit ==
    /\ kpageflags \in {"present", "missing", "unopenable"}
    /\ mode \in {"read_range", "read_all_pages", "scan_for_summary_only",
                 "scan_sampled_summary", "tui"}
    /\ table \in SampleTables
    /\ start_pfn = 0
    /\ count = IF mode = "read_range" THEN SampleTableLen ELSE NoCount
    /\ sample_size = IF mode = "scan_sampled_summary"
                     THEN MaxSampleSize ELSE 0
    /\ meminfo = NoMemTotal
    /\ interrupt_flag = FALSE
    /\ pc = "main"
    /\ loc = InitLocals(start_pfn)
    /\ status_msg = NoMsg
    /\ since = NoSince
    /\ exit_status = "running"
    /\ page = Unused
    /\ shown = Unused
    /\ app = Unused

\* `if !std::path::Path::new("/proc/kpageflags").exists()`, main.rs:1447-1453:
\* the error is printed and main returns Ok(())
CheckExists ==
    /\ pc = "main"
    /\ IF kpageflags = "missing"
       THEN /\ status_msg' = Msg("not_found", 0)
            /\ exit_status' = "Ok"
            /\ pc' = "returned"
       ELSE /\ pc' = "new"
            /\ UNCHANGED <<status_msg, exit_status>>
    /\ UNCHANGED <<table, meminfo, mode, start_pfn, count, sample_size,
                   interrupt_flag, loc, since, kpageflags, page, shown, app>>

\* `KPageFlagsReader::new()?`, main.rs:1463 and 233-238 (tui.rs:81 and 771
\* with --tui): File::open fails and the error is returned from main
NewReader ==
    /\ pc = "new"
    /\ IF kpageflags = "unopenable"
       THEN /\ exit_status' = "Err"
            /\ pc' = "returned"
       ELSE /\ pc' = CASE mode = "scan_sampled_summary" -> "estimate"
                       [] mode = "tui"                  -> "tui"
                       [] OTHER                         -> "loop"
            /\ UNCHANGED exit_status
    /\ UNCHANGED <<table, meminfo, mode, start_pfn, count, sample_size,
                   interrupt_flag, loc, status_msg, since, kpageflags,
                   page, shown, app>>

\* the `Ok(())` that ends main after a scan, main.rs:1476, 1513, 1608
Return ==
    /\ pc = "done"
    /\ exit_status' = "Ok"
    /\ pc' = "returned"
    /\ UNCHANGED <<table, meminfo, mode, start_pfn, count, sample_size,
                   interrupt_flag, loc, status_msg, since, kpageflags,
                   page, shown, app>>

StartupNext ==
    \/ CheckExists
    \/ NewReader
    \/ Interrupt
    \/ ReadRangeCheck
    \/ ReadRangeRead
    \/ ReadAllPagesCheck
    \/ ReadAllPagesRead
    \/ SummaryCheck
    \/ SummaryRead
    \/ SampleStart
    \/ SampleCheck
    \/ SampleRead
    \/ Report
    \/ Return

StartupSpec == StartupInit /\ [][StartupNext]_vars

----------------------------------------------------------------------------
(* The interactive explorer, tui.rs: AppState and the handlers of TuiApp.  *)

\* Option<T>
Nothing == [some |-> FALSE]
Just(v) == [some |-> TRUE, value |-> v]

Rect(x, y, width, height) ==
    [x |-> x, y |-> y, width |-> width, height |-> height]

\* the literals 1.0, 10.0, 1.2, 0.1 and 0.01 as f64 (a decimal literal is
\* the double nearest to it, as is the correctly rounded quotient)
F64One == F64FromInt(1)
F64Ten == F64FromInt(10)
F64OnePointTwo == F64Div(F64FromInt(12), F64FromInt(10))
F64OneTenth == F64Div(F64FromInt(1), F64FromInt(10))
F64OneHundredth == F64Div(F64FromInt(1), F64FromInt(100))

\* impl Default for AppState, tui.rs:48-71, but the fields no function
\* reads: grid_width, grid_height, selected_page, last_update
AppStateDefault ==
    [ pages               |-> <<>>,
      zoom_level          |-> F64One,
      offset_x            |-> 0,
      offset_y            |-> 0,
      show_help           |-> FALSE,
      show_stats          |-> TRUE,
      filter_category     |-> Nothing,
      total_pages_scanned |-> 0,
      scanning            |-> FALSE,
      scan_progress       |-> F64Zero,
      mouse_selecting     |-> FALSE,
      selection_start     |-> Nothing,
      selection_end       |-> Nothing,
      grid_area           |-> Nothing ]

\* start_background_scan, tui.rs:155-168; the flag of TuiApp is never set
start_background_scan(state, t) ==
    LET initial_pages == read_range(t, 0, 10000, FALSE)
    IN  [state EXCEPT !.scanning = TRUE,
                      !.pages = initial_pages,
                      !.total_pages_scanned = Len(initial_pages),
                      !.scan_progress = F64OneHundredth]

\* refresh_data, tui.rs:192-207
refresh_data(state, t) ==
    LET pages == read_range(t, 0, 100000, FALSE)
    IN  [state EXCEPT !.pages = pages,
                      !.total_pages_scanned = Len(pages),
                      !.scanning = FALSE,
                      !.scan_progress = F64One]

\* zoom_in without the upper clamp
zoom_in_unclamped(state) ==
    [state EXCEPT !.zoom_level = F64Mul(state.zoom_level, F64OnePointTwo)]

\* zoom_in, tui.rs:209-211
zoom_in(state) ==
    [state EXCEPT !.zoom_level =
        F64Min(F64Mul(state.zoom_level, F64OnePointTwo), F64Ten)]

\* zoom_out, tui.rs:213-215
zoom_out(state) ==
    [state EXCEPT !.zoom_level =
        F64Max(F64Div(state.zoom_level, F64OnePointTwo), F64OneTenth)]

\* (10.0 / self.state.zoom_level) as i64
PanStep(state) == F64ToInt(F64Div(F64Ten, state.zoom_level))

\* move_up, move_down, move_left, move_right, tui.rs:217-231
move_up(state) == [state EXCEPT !.offset_y = state.offset_y - PanStep(state)]

move_down(state) == [state EXCEPT !.offset_y = state.offset_y + PanStep(state)]

move_left(state) == [state EXCEPT !.offset_x = state.offset_x - PanStep(state)]

move_right(state) == [state EXCEPT !.offset_x = state.offset_x + PanStep(state)]

\* set_filter, tui.rs:233-235
set_filter(state, category) == [state EXCEPT !.filter_category = category]

\* reset_view, tui.rs:237-241
reset_view(state) ==
    [state EXCEPT !.zoom_level = F64One, !.offset_x = 0, !.offset_y = 0]

\* cancel_selection, tui.rs:243-247
cancel_selection(state) ==
    [state EXCEPT !.mouse_selecting = FALSE,
                  !.selection_start = Nothing,
                  !.selection_end = Nothing]

\* u16::saturating_sub
SaturatingSub(a, b) == IF a >= b THEN a - b ELSE 0

Min(a, b) == IF a <= b THEN a ELSE b
Max(a, b) == IF a >= b THEN a ELSE b

\* the bounds of the selection relative to the grid, tui.rs:293-306; a
\* point is <<column, row>>
SelectionBounds(start, end, grid_area) ==
    LET grid_start_x == SaturatingSub(start[1], grid_area.x)
        grid_start_y == SaturatingSub(start[2], grid_area.y)
        grid_end_x   == SaturatingSub(end[1], grid_area.x)
        grid_end_y   == SaturatingSub(end[2], grid_area.y)
    IN  [ min_x |-> Min(grid_start_x, grid_end_x),
          max_x |-> Max(grid_start_x, grid_end_x),
          min_y |-> Min(grid_start_y, grid_end_y),
          max_y |-> Max(grid_start_y, grid_end_y) ]

\* zoom_to_selection zooming when the selection is wider or taller than 1
zoom_to_selection_either(state) ==
    IF ~( /\ state.selection_start.some
          /\ state.selection_end.some
          /\ state.grid_area.some )
    THEN state
    ELSE LET grid_area == state.grid_area.value
             b == SelectionBounds(state.selection_start.value,
                                  state.selection_end.value, grid_area)
             selection_width  == (b.max_x - b.min_x) + 1
             selection_height == (b.max_y - b.min_y) + 1
             zoom_x == F64Div(F64FromInt(grid_area.width),
                              F64FromInt(selection_width))
             zoom_y == F64Div(F64FromInt(grid_area.height),
                              F64FromInt(selection_height))
             center_x == (b.min_x + b.max_x) \div 2
             center_y == (b.min_y + b.max_y) \div 2
             offset_x(zoom) == F64ToInt(F64Div(F64FromInt(center_x), zoom))
                               - (grid_area.width \div 2)
             offset_y(zoom) == F64ToInt(F64Div(F64FromInt(center_y), zoom))
                               - (grid_area.height \div 2)
         IN  IF selection_width > 1 \/ selection_height > 1
             THEN Bind(F64Max(F64Min(F64Min(zoom_x, zoom_y), F64Ten),
                              F64OneTenth),
                       LAMBDA new_zoom :
                          [state EXCEPT !.zoom_level = new_zoom,
                                        !.offset_x = Max(offset_x(new_zoom), 0),
                                        !.offset_y = Max(offset_y(new_zoom), 0)])
             ELSE state

\* zoom_to_selection, tui.rs:287-334
zoom_to_selection(state) ==
    IF ~( /\ state.selection_start.some
          /\ state.selection_end.some
          /\ state.grid_area.some )
    THEN state
    ELSE LET grid_area == state.grid_area.value
             b == SelectionBounds(state.selection_start.value,
                                  state.selection_end.value, grid_area)
             selection_width  == (b.max_x - b.min_x) + 1
             selection_height == (b.max_y - b.min_y) + 1
             zoom_x == F64Div(F64FromInt(grid_area.width),
                              F64FromInt(selection_width))
             zoom_y == F64Div(F64FromInt(grid_area.height),
                              F64FromInt(selection_height))
             center_x == (b.min_x + b.max_x) \div 2
             center_y == (b.min_y + b.max_y) \div 2
             offset_x(zoom) == F64ToInt(F64Div(F64FromInt(center_x), zoom))
                               - (grid_area.width \div 2)
             offset_y(zoom) == F64ToInt(F64Div(F64FromInt(center_y), zoom))
                               - (grid_area.height \div 2)
         IN  IF selection_width > 1 /\ selection_height > 1
             THEN Bind(F64Max(F64Min(F64Min(zoom_x, zoom_y), F64Ten),
                              F64OneTenth),
                       LAMBDA new_zoom :
                          [state EXCEPT !.zoom_level = new_zoom,
                                        !.offset_x = Max(offset_x(new_zoom), 0),
                                        !.offset_y = Max(offset_y(new_zoom), 0)])
             ELSE state

\* a MouseEvent: its kind and its cell
MouseEvent(kind, column, row) == [kind |-> kind, column |-> column, row |-> row]

\* handle_mouse_event, tui.rs:249-285
handle_mouse_event(state, mouse) ==
    IF ~state.grid_area.some THEN state
    ELSE LET grid_area == state.grid_area.value
             point == <<mouse.column, mouse.row>>
         IN  IF ~( /\ mouse.column >= grid_area.x
                   /\ mouse.column < grid_area.x + grid_area.width
                   /\ mouse.row >= grid_area.y
                   /\ mouse.row < grid_area.y + grid_area.height )
             THEN state
             ELSE CASE mouse.kind = "Down" ->
                         [state EXCEPT !.mouse_selecting = TRUE,
                                       !.selection_start = Just(point),
                                       !.selection_end = Just(point)]
                    [] mouse.kind = "Drag" ->
                         IF state.mouse_selecting
                         THEN [state EXCEPT !.selection_end = Just(point)]
                         ELSE state
                    [] mouse.kind = "Up" ->
                         IF state.mouse_selecting
                         THEN cancel_selection(zoom_to_selection(
                                  [state EXCEPT !.selection_end = Just(point)]))
                         ELSE state
                    [] mouse.kind = "ScrollUp" -> zoom_in(state)
                    [] mouse.kind = "ScrollDown" -> zoom_out(state)
                    [] OTHER -> state

\* the sort key of get_flag_categories, format!("{:?}", c), as the ASCII
\* codes of the name
DebugName(c) ==
    CASE c = "State"      -> <<83, 116, 97, 116, 101>>
      [] c = "Memory"     -> <<77, 101, 109, 111, 114, 121>>
      [] c = "Usage"      -> <<85, 115, 97, 103, 101>>
      [] c = "Allocation" -> <<65, 108, 108, 111, 99, 97, 116, 105, 111, 110>>
      [] c = "IO"         -> <<73, 79>>
      [] c = "Structure"  -> <<83, 116, 114, 117, 99, 116, 117, 114, 101>>
      [] c = "Special"    -> <<83, 112, 101, 99, 105, 97, 108>>
      [] OTHER            -> <<69, 114, 114, 111, 114>>

\* String's Ord: a <= b, byte by byte
RECURSIVE StrLeq(_, _)
StrLeq(a, b) ==
    IF a = <<>> THEN TRUE
    ELSE IF b = <<>> THEN FALSE
    ELSE IF a[1] # b[1] THEN a[1] < b[1]
    ELSE StrLeq(Tail(a), Tail(b))

\* the stable sort of sort_by_key: c inserted after the last element whose
\* key is not greater
RECURSIVE InsertByKey(_, _)
InsertByKey(sorted, c) ==
    IF sorted = <<>> THEN <<c>>
    ELSE LET last == sorted[Len(sorted)]
         IN  IF StrLeq(DebugName(last), DebugName(c))
             THEN Append(sorted, c)
             ELSE Append(InsertByKey(SubSeq(sorted, 1, Len(sorted) - 1), c),
                         last)

RECURSIVE SortByKey(_)
SortByKey(cs) ==
    IF cs = <<>> THEN <<>>
    ELSE InsertByKey(SortByKey(SubSeq(cs, 1, Len(cs) - 1)), cs[Len(cs)])

\* Vec::dedup: consecutive repeated elements are removed
RECURSIVE Dedup(_)
Dedup(cs) ==
    IF Len(cs) <= 1 THEN cs
    ELSE LET rest == Dedup(SubSeq(cs, 1, Len(cs) - 1))
         IN  IF rest[Len(rest)] = cs[Len(cs)] THEN rest
             ELSE Append(rest, cs[Len(cs)])

\* get_flag_categories without the sort before the dedup
get_flag_categories_unsorted(p) ==
    LET m == Matched(p)
        categories == [i \in 1..Len(m) |-> m[i].category]
    IN  Dedup(categories)

\* PageInfo::get_flag_categories, main.rs:203-212
get_flag_categories(p) ==
    LET m == Matched(p)
        categories == [i \in 1..Len(m) |-> m[i].category]
    IN  Dedup(SortByKey(categories))

Contains(seq, x) == \E i \in 1..Len(seq) : seq[i] = x

\* the filtered_pages of render_grid, tui.rs:430-438
filtered_pages(state) ==
    IF state.filter_category.some
    THEN SelectSeq(state.pages,
             LAMBDA p : Contains(get_flag_categories(p),
                                 state.filter_category.value))
    ELSE state.pages

\* render_grid, tui.rs:411-480: the grid it lays out for the inner area.
\* start_idx is held as the signed value of the i64 expression; `as usize`
\* of a negative value is 2^64 more.
render_grid(state, inner) ==
    Bind(Max(F64ToInt(F64Mul(F64FromInt(inner.width), state.zoom_level)), 1),
         LAMBDA grid_width :
    Bind(Max(F64ToInt(F64Mul(F64FromInt(inner.height), state.zoom_level)), 1),
         LAMBDA grid_height :
            [ pages_per_row  |-> grid_width,
              filtered_pages |-> filtered_pages(state),
              start_idx      |-> (state.offset_y * grid_width) + state.offset_x,
              rows           |-> Min(grid_height, inner.height),
              cols           |-> Min(grid_width, inner.width) ]))

\* render_stats, tui.rs:538-563: the counters of the statistics panel (the
\* HashMaps are keyed by flag name and by category)
render_stats(state) ==
    LET pages == state.pages
        with_flags == {k \in 1..Len(pages) : pages[k].flags # {}}
    IN  [ total_pages      |-> Len(pages),
          pages_with_flags |-> Cardinality(with_flags),
          flag_counts      |->
              [i \in FlagIdx |->
                  Cardinality({k \in with_flags :
                      PAGE_FLAGS[i].bit \in pages[k].flags})],
          category_counts  |->
              [c \in CategoryIdx |->
                  Cardinality({<<k, i>> \in with_flags \X FlagIdx :
                      /\ PAGE_FLAGS[i].category = FlagCategory[c + 1]
                      /\ PAGE_FLAGS[i].bit \in pages[k].flags})] ]

\* the page_idx of the cell at row, col of a grid, tui.rs:446.  In usize
\* arithmetic a negative start_idx is 2^64 more, and the sum passes 2^64
\* exactly when the signed sum is not negative.
page_idx(grid, row, col) == grid.start_idx + (row * grid.pages_per_row) + col

\* some cell of the grid overflows usize in `start_idx + row * pages_per_row
\* + col`: the last cell does
GridOverflows(grid) ==
    /\ grid.start_idx < 0
    /\ page_idx(grid, grid.rows - 1, grid.cols - 1) >= 0

\* the cell at row, col: the position in filtered_pages of the record it
\* shows, 0 for the '.' of a cell past the end
CellAt(grid, row, col) ==
    LET idx == page_idx(grid, row, col)
    IN  IF idx >= 0 /\ idx < Len(grid.filtered_pages) THEN idx + 1 ELSE 0

\* what one call of ui() paints, tui.rs:336-370
ui(state, inner) ==
    IF state.show_help THEN [help |-> TRUE, grid |-> Nothing, stats |-> Nothing]
    ELSE [help  |-> FALSE,
          grid  |-> Just(render_grid(state, inner)),
          stats |-> IF state.show_stats THEN Just(render_stats(state))
                    ELSE Nothing]

\* the AppState after ui(): render_grid stores the inner area, tui.rs:420
AfterUi(state, inner) ==
    IF state.show_help THEN state
    ELSE [state EXCEPT !.grid_area = Just(inner)]

\* the arms of `match key.code`, tui.rs:105-134, but 'q'
on_key(state, code, t) ==
    CASE code = "h" -> [state EXCEPT !.show_help = ~state.show_help]
      [] code = "s" -> [state EXCEPT !.show_stats = ~state.show_stats]
      [] code = "r" -> refresh_data(state, t)
      [] code \in {"+", "="} -> zoom_in(state)
      [] code = "-" -> zoom_out(state)
      [] code = "Up" -> move_up(state)
      [] code = "Down" -> move_down(state)
      [] code = "Left" -> move_left(state)
      [] code = "Right" -> move_right(state)
      [] code = "1" -> set_filter(state, Just("State"))
      [] code = "2" -> set_filter(state, Just("Memory"))
      [] code = "3" -> set_filter(state, Just("Usage"))
      [] code = "4" -> set_filter(state, Just("Allocation"))
      [] code = "5" -> set_filter(state, Just("IO"))
      [] code = "6" -> set_filter(state, Just("Structure"))
      [] code = "7" -> set_filter(state, Just("Special"))
      [] code = "8" -> set_filter(state, Just("Error"))
      [] code = "0" -> set_filter(state, Nothing)
      [] code = "Home" -> reset_view(state)
      [] code = "Esc" -> cancel_selection(state)
      [] OTHER -> state

F64Half == F64Div(F64FromInt(1), F64FromInt(2))

\* update_scan_progress that never clears scanning
update_scan_progress_keeps_scanning(state, t) ==
    IF F64Lt(state.scan_progress, F64One)
    THEN Bind(F64Add(state.scan_progress, F64OneHundredth),
              LAMBDA progress :
                 IF F64Lt(F64Half, progress) /\ Len(state.pages) < 50000
                 THEN LET more_pages == read_range(t, Len(state.pages), 10000,
                                                   FALSE)
                      IN  [state EXCEPT
                              !.scan_progress = progress,
                              !.pages = state.pages \o more_pages,
                              !.total_pages_scanned =
                                  Len(state.pages) + Len(more_pages)]
                 ELSE [state EXCEPT !.scan_progress = progress])
    ELSE state

\* update_scan_progress, tui.rs:170-190
update_scan_progress(state, t) ==
    IF F64Lt(state.scan_progress, F64One)
    THEN Bind(F64Add(state.scan_progress, F64OneHundredth),
              LAMBDA progress :
                 IF F64Lt(F64Half, progress) /\ Len(state.pages) < 50000
                 THEN LET more_pages == read_range(t, Len(state.pages), 10000,
                                                   FALSE)
                      IN  [state EXCEPT
                              !.scan_progress = progress,
                              !.pages = state.pages \o more_pages,
                              !.total_pages_scanned =
                                  Len(state.pages) + Len(more_pages)]
                 ELSE [state EXCEPT !.scan_progress = progress])
    ELSE [state EXCEPT !.scanning = FALSE]

----------------------------------------------------------------------------
(* TuiApp::run, tui.rs:91-153.  One step is one round of its loop taken    *)
(* from the poll on: the event is handled, the scan progress is updated    *)
(* and the next frame is drawn; the first frame is drawn in the initial    *)
(* state.                                                                  *)

\* largest number of events handled in one run of the explorer
MaxEvents == 2

\* the inner area of the grid block for an 80x24 and for a 200x60 terminal:
\* rows 3.. of the frame but the last 3, 70% of the width, less the border
GridAreas == {Rect(1, 4, 54, 16), Rect(1, 4, 138, 52)}

\* the cells the pointer is at: three of the grid, one of the header
MousePoints == {<<1, 4>>, <<2, 5>>, <<3, 4>>, <<0, 0>>}

MouseKinds == {"Down", "Drag", "Up", "ScrollUp", "ScrollDown", "Moved"}

ZoomKeys == {"+", "=", "-", "Home", "Esc"}

Keys == ZoomKeys \cup {"h", "s", "r", "Up", "Down", "Left", "Right", "0", "1", "2", "3", "4", "5", "6", "7", "8", "x"}

\* the tables the explorer loads: records in the leading PFNs only
ExplorerTables == {t \in SampleTables : \A p \in 0..(SampleTableLen - 1) : t[p].res = "Some"}

\* what the explorer does not write
ExplorerFixed == <<table, meminfo, mode, start_pfn, count, sample_size, interrupt_flag, status_msg, since, kpageflags, exit_status, page>>

ExplorerIdle ==
    /\ meminfo = NoMemTotal
    /\ mode = "tui"
    /\ start_pfn = 0
    /\ count = NoCount
    /\ sample_size = 0
    /\ interrupt_flag = FALSE
    /\ status_msg = NoMsg
    /\ since = NoSince
    /\ kpageflags = "present"
    /\ exit_status = "running"
    /\ page = Unused

\* run() up to its first poll: start_background_scan and the first frame
ExplorerInit ==
    /\ ExplorerIdle
    /\ table \in ExplorerTables
    /\ pc = "run"
    /\ loc = [events |-> 0]
    /\ \E inner \in GridAreas :
          LET started == start_background_scan(AppStateDefault, table)
          IN  /\ app = AfterUi(started, inner)
              /\ shown = ui(started, inner)

\* the rest of a round once the event is handled, tui.rs:144-149 and 99:
\* the update of the scan progress and the next frame, for a terminal that
\* is not resized.  Where a cell of the grid overflows usize the frame
\* panics in a build with overflow checks and wraps in one without.
Round(handled) ==
    \E ticked \in {IF handled.scanning THEN update_scan_progress(handled, table) ELSE handled} :
      \E painted \in {ui(ticked, ticked.grid_area.value)} :
        \E checked \in IF painted.grid.some /\ GridOverflows(painted.grid.value) THEN BOOLEAN ELSE {FALSE} :
            /\ app' = AfterUi(ticked, ticked.grid_area.value)
            /\ shown' = IF checked THEN shown ELSE painted
            /\ pc' = IF checked THEN "panic" ELSE pc

\* Event::Key, tui.rs:103-136, for the keys of a set other than 'q'
OnKeys(codes) ==
    /\ pc = "run"
    /\ \E code \in codes : \E handled \in {on_key(app, code, table)} : Round(handled)
    /\ UNCHANGED ExplorerFixed

\* KeyCode::Char('q') => break, tui.rs:106
Quit ==
    /\ pc = "run"
    /\ pc' = "quit"
    /\ UNCHANGED <<ExplorerFixed, loc, app, shown>>

\* Event::Mouse, tui.rs:137-139
OnMouse ==
    /\ pc = "run"
    /\ \E kind \in MouseKinds, point \in MousePoints :
          \E handled \in {handle_mouse_event(app, MouseEvent(kind, point[1], point[2]))} : Round(handled)
    /\ UNCHANGED ExplorerFixed

\* the poll times out, or the event is of another type, tui.rs:101, 140
NoEvent ==
    /\ pc = "run"
    /\ Round(app)
    /\ UNCHANGED ExplorerFixed

\* one more round of the MaxEvents of a run
Counted ==
    /\ loc.events < MaxEvents
    /\ loc' = [events |-> loc.events + 1]

KeyPress == Counted /\ OnKeys(Keys)

Mouse == Counted /\ OnMouse

Timeout == Counted /\ NoEvent

ExplorerNext ==
    \/ KeyPress
    \/ Mouse
    \/ Timeout
    \/ Quit

ExplorerSpec == ExplorerInit /\ [][ExplorerNext]_vars

\* the view alone: the table is loaded and the scan is over (the state a
\* refresh leaves), and the events are those that zoom, select or reset,
\* any number of them
ZoomTable == [p \in 0..(TableLen - 1) |-> IF p = 0 THEN Some({0, 3}) ELSE None]

ZoomInit ==
    /\ ExplorerIdle
    /\ table = ZoomTable
    /\ pc = "run"
    /\ loc = [events |-> 0]
    /\ \E inner \in GridAreas :
          LET started == start_background_scan(AppStateDefault, table)
              loaded == refresh_data(AfterUi(started, inner), table)
          IN  /\ app = AfterUi(loaded, inner)
              /\ shown = ui(loaded, inner)

ZoomKeyPress == OnKeys(ZoomKeys) /\ UNCHANGED loc

ZoomMouse == OnMouse /\ UNCHANGED loc

ZoomNext ==
    \/ ZoomKeyPress
    \/ ZoomMouse

ZoomSpec == ZoomInit /\ [][ZoomNext]_vars

\* the selection alone: the view is one a refresh and a few keys have set
\* (a zoom step, pans right and down, a category filter), and the events
\* are those of the pointer buttons and Escape, any number of them.  loc
\* keeps the last event and the AppState it was handled in.
KeyEvent(code) == [kind |-> "Key", code |-> code]

NoEventYet == [kind |-> "None"]

ButtonKinds == {"Down", "Drag", "Up"}

ZoomedViews(state) == {state, zoom_in(state), zoom_out(state)}

PannedViews(state) == {state, move_right(state), move_down(state), move_down(move_right(state))}

FilteredViews(state) == {state, set_filter(state, Just("State"))}

SelectInit ==
    /\ ExplorerIdle
    /\ table = ZoomTable
    /\ pc = "run"
    /\ \E inner \in GridAreas :
          LET started == start_background_scan(AppStateDefault, table)
              loaded == refresh_data(AfterUi(started, inner), table)
          IN  \E zoomed \in ZoomedViews(loaded) :
                \E panned \in PannedViews(zoomed) :
                  \E view \in FilteredViews(panned) :
                     /\ app = AfterUi(view, inner)
                     /\ shown = ui(view, inner)
    /\ loc = [events |-> 0, last |-> NoEventYet, before |-> app]

\* Event::Mouse for a button event, tui.rs:137-139
Button ==
    /\ pc = "run"
    /\ \E kind \in ButtonKinds, point \in MousePoints :
          \E mouse \in {MouseEvent(kind, point[1], point[2])} :
            \E handled \in {handle_mouse_event(app, mouse)} :
               /\ Round(handled)
               /\ loc' = [loc EXCEPT !.last = mouse, !.before = app]
    /\ UNCHANGED ExplorerFixed

\* KeyCode::Esc => self.cancel_selection(), tui.rs:132
Escape ==
    /\ pc = "run"
    /\ \E handled \in {on_key(app, "Esc", table)} : Round(handled)
    /\ loc' = [loc EXCEPT !.last = KeyEvent("Esc"), !.before = app]
    /\ UNCHANGED ExplorerFixed

SelectNext ==
    \/ Button
    \/ Escape

SelectSpec == SelectInit /\ [][SelectNext]_vars

----------------------------------------------------------------------------
(* The background scan alone: the explorer runs on a 40x12 terminal, the   *)
(* poll times out or 'r' is pressed, any number of times.  loc keeps the   *)
(* event of the last round and the calls of read_range the round made.     *)

Request(start, cnt) == [start |-> start, count |-> cnt]

\* the call of read_range in start_background_scan, tui.rs:159-161
start_background_scan_requests == <<Request(0, 10000)>>

\* the call of read_range in refresh_data, tui.rs:197-199
refresh_data_requests == <<Request(0, 100000)>>

\* the call of read_range in update_scan_progress, if it makes one,
\* tui.rs:172-181
update_scan_progress_requests(state) ==
    IF /\ F64Lt(state.scan_progress, F64One)
       /\ F64Lt(F64Half, F64Add(state.scan_progress, F64OneHundredth))
       /\ Len(state.pages) < 50000
    THEN <<Request(Len(state.pages), 10000)>>
    ELSE <<>>

\* the tables scanned: flagged records, and holes of absent or failing
\* records
ScanTables == [0..(TableLen - 1) -> {None, Err, Some({0, 3})}]

\* the inner area of the grid block for a 40x12 terminal
ScanArea == Rect(1, 4, 26, 4)

ScanInit ==
    /\ ExplorerIdle
    /\ table \in ScanTables
    /\ pc = "run"
    /\ loc = [events |-> 0, last |-> "start", requests |-> start_background_scan_requests]
    /\ LET started == start_background_scan(AppStateDefault, table)
       IN  /\ app = AfterUi(started, ScanArea)
           /\ shown = ui(started, ScanArea)

\* a round without an event: the scan is advanced if it is running
Tick ==
    /\ pc = "run"
    /\ Round(app)
    /\ loc' = [loc EXCEPT !.last = "tick", !.requests = IF app.scanning THEN update_scan_progress_requests(app) ELSE <<>>]
    /\ UNCHANGED ExplorerFixed

\* a round in which 'r' is pressed; refresh_data leaves scanning false, so
\* the round makes no other load
Refresh ==
    /\ pc = "run"
    /\ \E handled \in {on_key(app, "r", table)} : Round(handled)
    /\ loc' = [loc EXCEPT !.last = "refresh", !.requests = refresh_data_requests]
    /\ UNCHANGED ExplorerFixed

ScanNext ==
    \/ Tick
    \/ Refresh

ScanSpec == ScanInit /\ [][ScanNext]_vars

\* the same explorer over the tables with no failing record whose PFNs
\* after the first are all alike
ScanFairInit ==
    /\ ScanInit
    /\ \A p \in DOMAIN table : table[p] # Err /\ (p > 0 => table[p] = table[1])

\* the loop of run() goes round as long as the explorer is not quit
ScanFairSpec == ScanFairInit /\ [][ScanNext]_vars /\ WF_vars(Tick)

----------------------------------------------------------------------------
(* Selections that recentre: the explorer runs on a 50x12 terminal, the    *)
(* view is one a refresh, a zoom step and pans have set, and the pointer   *)
(* buttons act at the corners of the grid and inside it.  loc keeps the    *)
(* last event and the AppState it was handled in.                          *)

\* the inner area of the grid block for a 50x12 terminal
RecentreArea == Rect(1, 4, 33, 4)

\* cells of the grid: the top left, the left of the third row, the bottom
\* right and one in between
RecentrePoints == {<<1, 4>>, <<1, 6>>, <<33, 7>>, <<17, 5>>}

RecentreInit ==
    /\ ExplorerIdle
    /\ table = ZoomTable
    /\ pc = "run"
    /\ LET started == start_background_scan(AppStateDefault, table)
           loaded == refresh_data(AfterUi(started, RecentreArea), table)
       IN  \E zoomed \in ZoomedViews(loaded) :
             \E view \in PannedViews(zoomed) :
                /\ app = AfterUi(view, RecentreArea)
                /\ shown = ui(view, RecentreArea)
    /\ loc = [events |-> 0, last |-> NoEventYet, before |-> app]

\* Event::Mouse for a button event at one of the points, tui.rs:137-139
RecentreButton ==
    /\ pc = "run"
    /\ \E kind \in ButtonKinds, point \in RecentrePoints :
          \E mouse \in {MouseEvent(kind, point[1], point[2])} :
            \E handled \in {handle_mouse_event(app, mouse)} :
               /\ Round(handled)
               /\ loc' = [loc EXCEPT !.last = mouse, !.before = app]
    /\ UNCHANGED ExplorerFixed

RecentreNext == RecentreButton

RecentreSpec == RecentreInit /\ [][RecentreNext]_vars

----------------------------------------------------------------------------
(* The probing estimator, one probe round per step, main.rs:804-843.  The  *)
(* file is given by its runs of records: a PFN inside a run reads as the   *)
(* run says, every other PFN is past the end of the file.                  *)

Run(from, to, res) == [from |-> from, to |-> to, res |-> res]

\* the file whose readable PFNs are exactly [0, n)
Prefix(n) == {Run(0, n, "Some")}

\* KPageFlagsReader::read_page_flags_const, main.rs:833-843
read_page_flags_const(runs, pfn) ==
    IF \E r \in runs : r.from <= pfn /\ pfn < r.to /\ r.res = "Some"
    THEN Some({})
    ELSE IF \E r \in runs : r.from <= pfn /\ pfn < r.to THEN Err ELSE None

\* the locals of binary_search_max_pfn before the loop, main.rs:805-807
SearchLocals == [low |-> 0, high |-> 100000000, last_valid |-> 0, estimated_max_pfn |-> 0]

\* one round of the loop with a valid probe leaving the bracket as it was
binary_search_round_keep_bracket(runs, s) ==
    LET mid == (s.low + s.high) \div 2
        valid == {offset \in 0..9 :
                     read_page_flags_const(runs, mid + offset).res = "Some"}
    IN  IF valid # {}
        THEN [s EXCEPT !.last_valid = mid + MaxOf(valid)]
        ELSE [s EXCEPT !.high = mid]

\* one round of the `while high - low > 1000` loop, main.rs:811-827
binary_search_round(runs, s) ==
    LET mid == (s.low + s.high) \div 2
        valid == {offset \in 0..9 :
                     read_page_flags_const(runs, mid + offset).res = "Some"}
    IN  IF valid # {}
        THEN [s EXCEPT !.low = mid, !.last_valid = mid + MaxOf(valid)]
        ELSE [s EXCEPT !.high = mid]

\* the value returned with the buffer for sparse regions left out
binary_search_result_no_buffer(s) ==
    IF s.last_valid > 1000000 THEN s.last_valid ELSE 1000000

\* `(last_valid + 10000).max(1_000_000)`, main.rs:830
binary_search_result(s) ==
    IF s.last_valid + 10000 > 1000000 THEN s.last_valid + 10000 ELSE 1000000

\* the files tried: the prefixes [0, n) on a grid of n and at the edges of
\* the first brackets, the empty file, files with holes and a file with a
\* run of records that fail with an I/O error
MaxExtents == 99
ExtentStride == 1000003

Extents ==
    {n \in {k * ExtentStride : k \in 1..MaxExtents} : n <= 100000000}
    \cup {1, 10, 1000, 1001, 989999, 990000, 990001, 1000000, 1000001,
          49999990, 49999991, 50000000, 50000001, 50000010,
          99999000, 99999999, 100000000}

SearchFiles ==
    {Prefix(n) : n \in Extents}
    \cup { {},
           {Run(50000009, 50000010, "Some")},
           {Run(0, 10, "Some"), Run(75000000, 75000001, "Some")},
           {Run(0, 60000000, "Err")},
           {Run(0, 50000000, "Err"), Run(50000000, 80000000, "Some")},
           {Run(0, 200000000, "Some")} }

SearchInit ==
    /\ table \in SearchFiles
    /\ meminfo = Unopenable
    /\ mode = "scan_sampled_summary"
    /\ start_pfn = 0
    /\ count = NoCount
    /\ sample_size = 1
    /\ interrupt_flag = FALSE
    /\ pc = "search"
    /\ loc = SearchLocals
    /\ status_msg = NoMsg
    /\ since = NoSince
    /\ kpageflags = "present"
    /\ exit_status = "running"
    /\ page = Unused
    /\ shown = Unused
    /\ app = Unused

SearchFixed == <<table, meminfo, mode, start_pfn, count, sample_size, interrupt_flag, status_msg, since, kpageflags, exit_status, page, shown, app>>

\* the loop test holds: one round of probes
ProbeRound ==
    /\ pc = "search"
    /\ loc.high - loc.low > 1000
    /\ loc' = binary_search_round(table, loc)
    /\ UNCHANGED <<pc, SearchFixed>>

\* the loop test fails: the function returns
ProbeReturn ==
    /\ pc = "search"
    /\ ~(loc.high - loc.low > 1000)
    /\ loc' = [loc EXCEPT !.estimated_max_pfn = binary_search_result(loc)]
    /\ pc' = "done"
    /\ UNCHANGED SearchFixed

SearchNext ==
    \/ ProbeRound
    \/ ProbeReturn

SearchSpec == SearchInit /\ [][SearchNext]_vars

\* the function is one sequential call: a step that can be taken is taken
SearchFairSpec == SearchSpec /\ WF_vars(SearchNext)

----------------------------------------------------------------------------
(* get_flag_categories applied to one record, main.rs:203-212.             *)

MaxMatching == 3

CatalogBits == {PAGE_FLAGS[i].bit : i \in FlagIdx}

\* the flag words with at most k catalog bits set
RECURSIVE CatalogWordsUpTo(_)
CatalogWordsUpTo(k) ==
    IF k = 0 THEN {{}}
    ELSE LET S == CatalogWordsUpTo(k - 1)
         IN  S \cup {w \cup {b} : w \in S, b \in CatalogBits}

\* the words tried: up to MaxMatching catalog flags, alone or with bit 63,
\* which the catalog does not name
CategoryWords ==
    LET S == CatalogWordsUpTo(MaxMatching) IN S \cup {w \cup {63} : w \in S}

CategoriesInit ==
    /\ ReaderIdle
    /\ mode = "classify"
    /\ pc = "classify"
    /\ page \in {PageInfo(0, w) : w \in CategoryWords}
    /\ shown = NoFlagNames
    /\ app = Unused

GetFlagCategories ==
    /\ pc = "classify"
    /\ ~shown.called
    /\ shown' = Returned(get_flag_categories(page))
    /\ UNCHANGED <<Reader, pc, page, app>>

CategoriesNext == GetFlagCategories

CategoriesSpec == CategoriesInit /\ [][CategoriesNext]_vars

----------------------------------------------------------------------------
(* ContinuousMonitor, inactive-mem/src/monitor.rs:9-98: the sampling       *)
(* thread and the callers of its methods.  app is the monitor, pc the      *)
(* position of the sampling thread, loc what the thread holds and the      *)
(* snapshots pushed so far, shown what the last call of a caller saw.  A   *)
(* snapshot is its timestamp and the mem_free of its stats; the other      *)
(* stats are treated the same way and are left out.                        *)

\* largest max_snapshots tried, number of snapshots taken in a run, and
\* largest window asked of get_trend_analysis
MaxStored == 2
MaxTaken == 4
MaxWindow == 3

MemFreeValues == {1000, 1300}

Snapshot(timestamp, mem_free) == [timestamp |-> timestamp, mem_free |-> mem_free]

\* ContinuousMonitor::new, monitor.rs:18-25, and the mutex of snapshots
ContinuousMonitorNew(max_snapshots) ==
    [ snapshots     |-> <<>>,
      max_snapshots |-> max_snapshots,
      running       |-> FALSE,
      handle        |-> FALSE,
      stopping      |-> FALSE,
      lock          |-> "free" ]

\* a caller takes the mutex whoever holds it
LockFree_unguarded(monitor) == TRUE

\* `self.snapshots.lock().unwrap()`: the mutex can be taken, monitor.rs:42,
\* 74, 79, 84, 96
LockFree(monitor) == monitor.lock = "free"

\* VecDeque::pop_front, monitor.rs:49
pop_front(q) == Tail(q)

\* a window given in the order of the queue, oldest first
Recent_oldest_first(snapshots, window_size) ==
    SubSeq(snapshots, Len(snapshots) - window_size + 1, Len(snapshots))

\* `snapshots.iter().rev().take(window_size).cloned().collect()`,
\* monitor.rs:90
Recent(snapshots, window_size) ==
    [i \in 1..window_size |-> snapshots[Len(snapshots) + 1 - i]]

TrendDefault == [initial_value |-> 0, final_value |-> 0, change |-> 0, direction |-> "Stable"]

\* TrendAnalysis::calculate_trend, monitor.rs:193-235, without the f64
\* fields change_percent and volatility
calculate_trend(values) ==
    IF values = <<>> THEN TrendDefault
    ELSE LET initial_value == values[1]
             final_value == values[Len(values)]
             change == final_value - initial_value
         IN  [ initial_value |-> initial_value,
               final_value   |-> final_value,
               change        |-> change,
               direction     |->
                   IF change > (initial_value \div 100) THEN "Increasing"
                   ELSE IF change < -(initial_value \div 100) THEN "Decreasing"
                   ELSE "Stable" ]

\* TrendAnalysis::from_snapshots, monitor.rs:149-191, for mem_free
from_snapshots(snapshots) ==
    IF snapshots = <<>>
    THEN [duration_ms |-> 0, sample_count |-> 0, free_memory_trend |-> TrendDefault]
    ELSE LET first == snapshots[1]
             last == snapshots[Len(snapshots)]
         IN  [ duration_ms       |-> SaturatingSub(last.timestamp, first.timestamp),
               sample_count      |-> Len(snapshots),
               free_memory_trend |->
                   calculate_trend([i \in 1..Len(snapshots) |-> snapshots[i].mem_free]) ]

\* ContinuousMonitor::get_trend_analysis, monitor.rs:83-92
get_trend_analysis(snapshots, window_size) ==
    IF Len(snapshots) < window_size THEN Nothing
    ELSE Just(from_snapshots(Recent(snapshots, window_size)))

\* ContinuousMonitor::get_latest, monitor.rs:78-80
get_latest(snapshots) ==
    IF snapshots = <<>> THEN Nothing ELSE Just(snapshots[Len(snapshots)])

\* what a call saw: the method, its argument, what it returned, and the
\* queue and the snapshots pushed so far at the moment it held the mutex
Seen(op, arg, value) == [op |-> op, arg |-> arg, value |-> value, stored |-> app.snapshots, pushed |-> loc.pushed]

MonitorFixed == <<table, meminfo, mode, start_pfn, count, sample_size, interrupt_flag, status_msg, since, kpageflags, exit_status, page>>

\* a monitor is made and started, monitor.rs:28-37
MonitorInit ==
    /\ table = <<>>
    /\ meminfo = NoMemTotal
    /\ mode = "monitor"
    /\ start_pfn = 0
    /\ count = NoCount
    /\ sample_size = 0
    /\ interrupt_flag = FALSE
    /\ status_msg = NoMsg
    /\ since = NoSince
    /\ kpageflags = "present"
    /\ exit_status = "running"
    /\ page = Unused
    /\ \E max_snapshots \in 0..MaxStored :
          app = [ContinuousMonitorNew(max_snapshots) EXCEPT !.running = TRUE, !.handle = TRUE]
    /\ pc = "test"
    /\ loc = [clock |-> 0, snapshot |-> Nothing, pushed |-> <<>>]
    /\ shown = [op |-> "none", arg |-> 0, value |-> Nothing, stored |-> <<>>, pushed |-> <<>>]

\* `while *running_flag.lock().unwrap()`, monitor.rs:40
SamplerTest ==
    /\ pc = "test"
    /\ pc' = IF app.running THEN "snap" ELSE "ended"
    /\ UNCHANGED <<MonitorFixed, app, loc, shown>>

\* `if let Ok(snapshot) = MemorySnapshot::new()`, monitor.rs:41; the clock
\* has moved on since the last snapshot
SamplerSnapshot ==
    /\ pc = "snap"
    /\ \E ok \in IF loc.clock < MaxTaken THEN BOOLEAN ELSE {FALSE} :
         \E mem_free \in IF ok THEN MemFreeValues ELSE {0} :
          /\ loc' = IF ok
                    THEN [loc EXCEPT !.clock = loc.clock + 1,
                                     !.snapshot = Just(Snapshot(loc.clock + 1, mem_free))]
                    ELSE loc
          /\ pc' = IF ok THEN "lock" ELSE "sleep"
    /\ UNCHANGED <<MonitorFixed, app, shown>>

\* `snapshots.lock().unwrap()`, monitor.rs:42
SamplerLock ==
    /\ pc = "lock"
    /\ app.lock = "free"
    /\ app' = [app EXCEPT !.lock = "sampler"]
    /\ pc' = "push"
    /\ UNCHANGED <<MonitorFixed, loc, shown>>

\* `snapshots_guard.push_back(snapshot)`, monitor.rs:45
SamplerPush ==
    /\ pc = "push"
    /\ app' = [app EXCEPT !.snapshots = Append(app.snapshots, loc.snapshot.value)]
    /\ loc' = [loc EXCEPT !.snapshot = Nothing,
                          !.pushed = Append(loc.pushed, loc.snapshot.value)]
    /\ pc' = "trim"
    /\ UNCHANGED <<MonitorFixed, shown>>

\* `while snapshots_guard.len() > max_snapshots { pop_front }`, then the
\* guard is dropped, monitor.rs:48-51
SamplerTrim ==
    /\ pc = "trim"
    /\ app' = IF Len(app.snapshots) > app.max_snapshots
              THEN [app EXCEPT !.snapshots = pop_front(app.snapshots)]
              ELSE [app EXCEPT !.lock = "free"]
    /\ pc' = IF Len(app.snapshots) > app.max_snapshots THEN "trim" ELSE "sleep"
    /\ UNCHANGED <<MonitorFixed, loc, shown>>

\* `thread::sleep(interval)`, monitor.rs:53
SamplerSleep ==
    /\ pc = "sleep"
    /\ pc' = "test"
    /\ UNCHANGED <<MonitorFixed, app, loc, shown>>

\* a caller may call a method of &self: stop(&mut self) is not running
CallerMayLock == ~app.stopping /\ LockFree(app)

\* get_snapshots, monitor.rs:73-75
GetSnapshots ==
    /\ CallerMayLock
    /\ shown' = Seen("get_snapshots", 0, Just(app.snapshots))
    /\ UNCHANGED <<MonitorFixed, app, pc, loc>>

\* get_latest, monitor.rs:78-80
GetLatest ==
    /\ CallerMayLock
    /\ shown' = Seen("get_latest", 0, get_latest(app.snapshots))
    /\ UNCHANGED <<MonitorFixed, app, pc, loc>>

\* get_trend_analysis, monitor.rs:83-92
GetTrendAnalysis ==
    /\ CallerMayLock
    /\ \E window_size \in 0..MaxWindow :
          shown' = Seen("get_trend_analysis", window_size, get_trend_analysis(app.snapshots, window_size))
    /\ UNCHANGED <<MonitorFixed, app, pc, loc>>

\* clear, monitor.rs:95-97
Clear ==
    /\ CallerMayLock
    /\ app' = [app EXCEPT !.snapshots = <<>>]
    /\ shown' = Seen("clear", 0, Nothing)
    /\ UNCHANGED <<MonitorFixed, pc, loc>>

\* stop up to the join, monitor.rs:62-66
Stop ==
    /\ ~app.stopping
    /\ app.handle
    /\ app' = [app EXCEPT !.running = FALSE, !.stopping = TRUE]
    /\ UNCHANGED <<MonitorFixed, pc, loc, shown>>

\* `handle.join()` returns, monitor.rs:68-70
Joined ==
    /\ app.stopping
    /\ pc = "ended"
    /\ app' = [app EXCEPT !.stopping = FALSE, !.handle = FALSE]
    /\ pc' = "idle"
    /\ UNCHANGED <<MonitorFixed, loc, shown>>

\* start on a monitor that is not running, monitor.rs:28-58
Start ==
    /\ ~app.stopping
    /\ ~app.running
    /\ pc = "idle"
    /\ app' = [app EXCEPT !.running = TRUE, !.handle = TRUE]
    /\ pc' = "test"
    /\ UNCHANGED <<MonitorFixed, loc, shown>>

MonitorNext ==
    \/ SamplerTest
    \/ SamplerSnapshot
    \/ SamplerLock
    \/ SamplerPush
    \/ SamplerTrim
    \/ SamplerSleep
    \/ GetSnapshots
    \/ GetLatest
    \/ GetTrendAnalysis
    \/ Clear
    \/ Stop
    \/ Joined
    \/ Start

MonitorSpec == MonitorInit /\ [][MonitorNext]_vars

----------------------------------------------------------------------------
(* EventMonitor, inactive-mem/src/monitor.rs:272-380.  app is the monitor, *)
(* shown the result of its last check, loc what each condition evaluated   *)
(* to in the last check and in the one before.                             *)

\* largest number of conditions added to a monitor
MaxConditions == 2

\* the stats a snapshot may hold: mem_free and mem_available, in KB
StatsValues == [mem_free : {500, 2000}, mem_available : {0, 60000}]

\* the conditions added: the closure of tests::test_event_monitor,
\* monitor.rs:403-406, and memory_pressure_relief, monitor.rs:368-377
ConditionNames == {"test_condition", "memory_pressure_relief"}

Holds(name, stats, previous_stats) ==
    IF name = "test_condition" THEN stats.mem_free < 1000
    ELSE IF previous_stats.some
         THEN stats.mem_available > previous_stats.value.mem_available + (50 * 1024)
         ELSE FALSE

\* EventMonitor::new, monitor.rs:294-299
EventMonitorNew == [conditions |-> <<>>, last_snapshot |-> Nothing]

\* EventMonitor::add_condition, monitor.rs:303-312
add_condition(monitor, name) ==
    [monitor EXCEPT !.conditions = Append(monitor.conditions, [name |-> name, triggered |-> FALSE])]

\* check_conditions with a triggered condition never armed again
check_conditions_no_reset(monitor, current) ==
    LET is_triggered(i) == Holds(monitor.conditions[i].name, current, monitor.last_snapshot)
        fired == {i \in 1..Len(monitor.conditions) : is_triggered(i) /\ ~monitor.conditions[i].triggered}
    IN  [ monitor |->
              [ conditions    |-> [i \in 1..Len(monitor.conditions) |->
                                     IF i \in fired
                                     THEN [monitor.conditions[i] EXCEPT !.triggered = TRUE]
                                     ELSE monitor.conditions[i]],
                last_snapshot |-> Just(current) ],
          triggered_events |->
              SelectSeq([i \in 1..Len(monitor.conditions) |-> IF i \in fired THEN monitor.conditions[i].name ELSE ""], LAMBDA n : n # "") ]

\* EventMonitor::check_conditions once MemorySnapshot::new has returned
\* the stats current, monitor.rs:316-334: the monitor after the call and
\* the names returned
check_conditions(monitor, current) ==
    LET is_triggered(i) == Holds(monitor.conditions[i].name, current, monitor.last_snapshot)
        fired == {i \in 1..Len(monitor.conditions) : is_triggered(i) /\ ~monitor.conditions[i].triggered}
    IN  [ monitor |->
              [ conditions    |-> [i \in 1..Len(monitor.conditions) |->
                                     IF i \in fired
                                     THEN [monitor.conditions[i] EXCEPT !.triggered = TRUE]
                                     ELSE IF ~is_triggered(i)
                                     THEN [monitor.conditions[i] EXCEPT !.triggered = FALSE]
                                     ELSE monitor.conditions[i]],
                last_snapshot |-> Just(current) ],
          triggered_events |->
              SelectSeq([i \in 1..Len(monitor.conditions) |-> IF i \in fired THEN monitor.conditions[i].name ELSE ""], LAMBDA n : n # "") ]

EventFixed == <<table, meminfo, mode, start_pfn, count, sample_size, interrupt_flag, status_msg, since, kpageflags, exit_status, page, pc>>

EventInit ==
    /\ table = <<>>
    /\ meminfo = NoMemTotal
    /\ mode = "events"
    /\ start_pfn = 0
    /\ count = NoCount
    /\ sample_size = 0
    /\ interrupt_flag = FALSE
    /\ status_msg = NoMsg
    /\ since = NoSince
    /\ kpageflags = "present"
    /\ exit_status = "running"
    /\ page = Unused
    /\ pc = "run"
    /\ app = EventMonitorNew
    /\ loc = [now |-> <<>>, before |-> <<>>]
    /\ shown = [op |-> "none", triggered_events |-> <<>>]

\* a condition not yet in the monitor is added
AddCondition ==
    /\ Len(app.conditions) < MaxConditions
    /\ \E name \in ConditionNames :
          /\ \A i \in 1..Len(app.conditions) : app.conditions[i].name # name
          /\ app' = add_condition(app, name)
    /\ loc' = [loc EXCEPT !.now = Append(loc.now, "unchecked")]
    /\ shown' = [op |-> "add_condition", triggered_events |-> <<>>]
    /\ UNCHANGED EventFixed

\* a check whose snapshot is taken
CheckConditions ==
    /\ \E current \in StatsValues :
          \E checked \in {check_conditions(app, current)} :
             /\ app' = checked.monitor
             /\ shown' = [op |-> "check_conditions", triggered_events |-> checked.triggered_events]
             /\ loc' = [ now    |-> [i \in 1..Len(app.conditions) |->
                                       IF Holds(app.conditions[i].name, current, app.last_snapshot)
                                       THEN "held" ELSE "not_held"],
                         before |-> loc.now ]
    /\ UNCHANGED EventFixed

\* `MemorySnapshot::new()?` fails: the call returns the error and the
\* monitor is as it was, monitor.rs:317
CheckFails ==
    /\ shown' = [op |-> "check_failed", triggered_events |-> <<>>]
    /\ UNCHANGED <<EventFixed, app, loc>>

EventNext ==
    \/ AddCondition
    \/ CheckConditions
    \/ CheckFails

EventSpec == EventInit /\ [][EventNext]_vars

----------------------------------------------------------------------------
(* Properties of the census reader.                                        *)

SequentialModes == {"read_range", "read_all_pages", "scan_for_summary_only"}

AllReadable(t, first, k) ==
    \A p \in first..(first + k - 1) : read_page_flags(t, p).res = "Some"

\* C1: read_range with count = k, the flag never set, over a range whose
\* PFNs are all readable returns exactly k records, with PFNs start_pfn,
\* start_pfn + 1, ..., start_pfn + k - 1 in that order.
C1_ReadRangeReturnsCountRecords ==
    ( /\ mode = "read_range"
      /\ pc = "done"
      /\ ~interrupt_flag
      /\ AllReadable(table, start_pfn, count) )
    => /\ Len(loc.pages) = count
       /\ \A i \in 1..Len(loc.pages) :
             /\ loc.pages[i].pfn = start_pfn + i - 1
             /\ loc.pages[i].flags = table[start_pfn + i - 1].flags

C1_Witness ==
    /\ mode = "read_range"
    /\ pc = "done"
    /\ ~interrupt_flag
    /\ start_pfn = 1
    /\ count = TableLen - 1
    /\ AllReadable(table, start_pfn, count)
    /\ Len(loc.pages) = count

\* C2: in the ranged, unbounded and summary scans the MAX_CONSECUTIVE_FAILURES-th
\* consecutive failed read ends the scan: once the run of failures has that
\* length no further PFN is read, so the run never grows longer.
C2_ThresholdFailureEndsScan ==
    mode \in SequentialModes
    => /\ loc.consecutive_failures <= MAX_CONSECUTIVE_FAILURES
       /\ loc.consecutive_failures = MAX_CONSECUTIVE_FAILURES => pc # "read"

\* C3: in every scan mode the number of successfully read records never
\* exceeds SAFETY_LIMIT.
C3_NeverMoreThanSafetyLimit ==
    OkReads(loc) <= SAFETY_LIMIT

IsPrefix(a, b) ==
    /\ Len(a) <= Len(b)
    /\ \A i \in 1..Len(a) : a[i] = b[i]

\* what the caller gets: the records and the counters
Results(s) ==
    <<s.pages, s.total_pages, s.pages_with_flags, s.flag_counts,
      s.category_counts, s.successful_reads, s.attempts>>

\* C4: a scan that observes the flag performs no further read and keeps
\* exactly what it had accumulated: the records of the ranged and the
\* unbounded scan are a prefix of the records the uninterrupted scan returns,
\* the counters of the summary scan are those the uninterrupted scan had at
\* the same PFN, and the status line reports the interruption with the number
\* of records accumulated.
C4_InterruptKeepsPartialResults ==
    /\ [](loc.exit = "interrupt" =>
            /\ mode = "read_range" =>
                  IsPrefix(loc.pages,
                           read_range(table, start_pfn, count, FALSE))
            /\ mode = "read_all_pages" =>
                  IsPrefix(loc.pages, read_all_pages(table, start_pfn, FALSE))
            /\ mode = "scan_for_summary_only" =>
                  RunSummary(table, [loc EXCEPT !.exit = "running"],
                             EndPfn(start_pfn, count), FALSE)
                  = RunSummary(table, InitLocals(start_pfn),
                               EndPfn(start_pfn, count), FALSE)
            /\ (pc = "done" /\ mode # "read_range") =>
                  status_msg = Msg("interrupted", OkReads(loc)))
    /\ [][loc'.exit = "interrupt" =>
            (Results(loc') = Results(loc) /\ loc'.reads = loc.reads)]_vars

C4_Witness ==
    /\ mode = "read_all_pages"
    /\ pc = "done"
    /\ loc.exit = "interrupt"
    /\ Len(loc.pages) = INTERRUPT_CHECK_INTERVAL
    /\ Len(read_all_pages(table, start_pfn, FALSE)) > Len(loc.pages)
    /\ status_msg = Msg("interrupted", INTERRUPT_CHECK_INTERVAL)

\* C5 as claimed: once the flag is set, a ranged, unbounded or summary scan
\* processes at most INTERRUPT_CHECK_INTERVAL further records, failed reads
\* included, and a sampling scan makes at most SAMPLE_CHECK_INTERVAL further
\* attempts.
C5_StopsWithinIntervalOfRecords ==
    /\ mode \in SequentialModes => since.reads <= INTERRUPT_CHECK_INTERVAL
    /\ mode = "scan_sampled_summary" => since.reads <= SAMPLE_CHECK_INTERVAL

\* C5 as amended: once the flag is set, a ranged, unbounded or summary scan
\* makes at most INTERRUPT_CHECK_INTERVAL further successful reads (failed
\* reads in between are not counted by the polling cadence), and a sampling
\* scan makes at most SAMPLE_CHECK_INTERVAL further attempts.
C5_StopsWithinIntervalOfSuccesses ==
    /\ mode \in SequentialModes => since.ok <= INTERRUPT_CHECK_INTERVAL
    /\ mode = "scan_sampled_summary" => since.reads <= SAMPLE_CHECK_INTERVAL

C5_Witness ==
    /\ mode = "read_range"
    /\ loc.exit = "interrupt"
    /\ since.ok = INTERRUPT_CHECK_INTERVAL
    /\ since.reads > since.ok

\* the counting loop of print_summary over the records of a full scan,
\* main.rs:1077-1092 (the HashMap is keyed by flag name; names are unique)
print_summary(pages) ==
    [ total_pages      |-> Len(pages),
      pages_with_flags |-> Cardinality({k \in 1..Len(pages) :
                                           pages[k].flags # {}}),
      flag_counts      |-> [i \in FlagIdx |->
                              Cardinality({k \in 1..Len(pages) :
                                  PAGE_FLAGS[i].bit \in pages[k].flags})] ]

\* the records Mode A (a count is given) or Mode B (none) returns for the
\* same table, start_pfn and count, the flag never set
FullScan(t, start, cnt) ==
    IF cnt = NoCount THEN read_all_pages(t, start, FALSE)
    ELSE read_range(t, start, cnt, FALSE)

\* C6: with the flag never set, the summary scan covers what Mode A/B covers
\* for the same table, start_pfn and count: total_scanned is the number of
\* records Mode A/B returns and each per-flag counter is the number of those
\* records with the flag set.
C6_SummaryCoversFullScan ==
    ( /\ mode = "scan_for_summary_only"
      /\ pc = "done"
      /\ ~interrupt_flag )
    => LET full == print_summary(FullScan(table, start_pfn, count))
       IN  /\ loc.total_pages = full.total_pages
           /\ loc.pages_with_flags = full.pages_with_flags
           /\ loc.flag_counts = full.flag_counts

\* records scanned so far in the two counting modes
Scanned(s) == s.total_pages + s.successful_reads

\* C7: at every step of a summary or sampling scan every per-flag counter
\* and the number of pages with any flag are at most the number of records
\* successfully scanned so far.
C7_CountersAtMostScanned ==
    mode \in {"scan_for_summary_only", "scan_sampled_summary"}
    => /\ \A i \in FlagIdx : loc.flag_counts[i] <= Scanned(loc)
       /\ loc.pages_with_flags <= Scanned(loc)

C7_Witness ==
    /\ mode = "scan_for_summary_only"
    /\ loc.total_pages = 2
    /\ loc.pages_with_flags = 1
    /\ loc.flag_counts[1] = 1
    /\ loc.flag_counts[4] = 1

\* C8: in sampling mode attempts >= samples_collected in every state of
\* the loop.
C8_AttemptsAtLeastSamples ==
    mode = "scan_sampled_summary" => loc.attempts >= loc.successful_reads

C8_Witness ==
    /\ mode = "scan_sampled_summary"
    /\ pc = "loop"
    /\ loc.successful_reads = MaxSampleSize
    /\ loc.attempts > loc.successful_reads

\* C9: for every sample_size and table, the flag never set, the sampling
\* loop is reached and left normally, and when it is left either
\* samples_collected = sample_size or attempts = 10 x sample_size.
C9_SamplingLoopEndsAtTarget ==
    mode = "scan_sampled_summary"
    => /\ pc # "panic"
       /\ (loc.exit = "loop_end" /\ ~interrupt_flag) =>
             \/ loc.successful_reads = sample_size
             \/ /\ loc.attempts % ATTEMPT_FACTOR = 0
                /\ loc.attempts \div ATTEMPT_FACTOR = sample_size

\* C10: when the hint yields estimated_max_pfn = 0, sampling falls back to
\* the binary-search estimator, samples within the ceiling it returns and
\* does not fail on the empty range.
C10_ZeroHintFallsBackToBinarySearch ==
    ( /\ mode = "scan_sampled_summary"
      /\ pc # "estimate"
      /\ get_estimated_total_pages(meminfo) = Ok(0)
      /\ ~MulOverflowsU32(sample_size, ATTEMPT_FACTOR) )
    => /\ loc.estimated_max_pfn = binary_search_max_pfn(table)
       /\ pc # "panic"

\* C11: whenever the total-memory hint is absent (/proc/meminfo cannot be
\* opened, or it holds no MemTotal line), the sampling scan takes
\* estimated_max_pfn from the binary-search estimator and does not fail.
C11_AbsentHintUsesBinarySearch ==
    ( /\ mode = "scan_sampled_summary"
      /\ pc # "estimate"
      /\ meminfo \in {Unopenable, NoMemTotal} )
    => /\ loc.estimated_max_pfn = binary_search_max_pfn(table)
       /\ pc # "panic"

----------------------------------------------------------------------------
(* Properties of the classification.                                       *)

Range(seq) == {seq[i] : i \in 1..Len(seq)}

\* C13: for a record with flags = 0, get_flag_names and get_unknown_flags
\* both return the empty list.
C13_ZeroFlagsClassifyEmpty ==
    (mode = "classify" /\ page.flags = {})
    => /\ shown.flag_names.value = <<>>
       /\ shown.unknown_flags.value = <<>>

C13_Witness ==
    /\ mode = "classify"
    /\ page.flags = {}
    /\ shown.flag_names = Returned(<<>>)
    /\ shown.unknown_flags = Returned(<<>>)

\* C14: for any flag word, the catalog entries matched by get_flag_names are
\* exactly those whose mask is a submask of flags, and the bits returned by
\* get_unknown_flags together with the bits of the matched entries partition
\* the set bits of flags.
C14_MatchedAndUnknownPartitionFlags ==
    ( /\ mode = "classify"
      /\ shown.flag_names.called
      /\ shown.unknown_flags.called )
    => LET names   == shown.flag_names.value
           unknown == Range(shown.unknown_flags.value)
           matched == {k \in FlagIdx : PAGE_FLAGS[k].name \in Range(names)}
           covered == {PAGE_FLAGS[k].bit : k \in matched}
       IN  /\ matched = {k \in FlagIdx : {PAGE_FLAGS[k].bit} \subseteq page.flags}
           /\ Len(names) = Cardinality(matched)
           /\ unknown \cup covered = page.flags
           /\ unknown \cap covered = {}
           /\ Len(shown.unknown_flags.value) = Cardinality(unknown)

C14_Witness ==
    /\ mode = "classify"
    /\ page.flags = {5, 40}
    /\ shown.flag_names = Returned(<<"LRU">>)
    /\ shown.unknown_flags = Returned(<<40>>)

\* C15: read_range from PFN 0 with count 5 over the scenario table returns
\* 5 records, and they are listed as: record 0 no flags, record 1 exactly
\* LOCKED, record 2 exactly LOCKED and ERROR, record 3 exactly LRU, in every
\* run.
C15_ScenarioClassification ==
    ( /\ table = ScenarioTable
      /\ start_pfn = 0
      /\ count = 5
      /\ pc = "done"
      /\ loc.exit # "interrupt" )
    => /\ Len(loc.pages) = 5
       /\ loc.exit = "range_end"
       /\ \A k \in 1..Len(shown) :
             /\ shown[k].pfn = k - 1
             /\ k = 1 => shown[k].flag_names = <<>> /\ shown[k].unknown_flags = <<>>
             /\ k = 2 => shown[k].flag_names = <<"LOCKED">>
                          /\ shown[k].unknown_flags = <<>>
             /\ k = 3 => shown[k].flag_names = <<"LOCKED", "ERROR">>
                          /\ shown[k].unknown_flags = <<>>
             /\ k = 4 => shown[k].flag_names = <<"LRU">>
                          /\ shown[k].unknown_flags = <<>>

C15_Witness ==
    /\ table = ScenarioTable
    /\ start_pfn = 0
    /\ count = 5
    /\ pc = "done"
    /\ ~interrupt_flag
    /\ Len(shown) = 5

\* C16 as claimed: a record with flags 0xFFFFFFFF00000000 matches no named
\* flag and get_unknown_flags returns 32 unknown bit positions.
C16_HighWordAllUnknown ==
    ( /\ mode = "classify"
      /\ page.flags = HighWord
      /\ shown.flag_names.called
      /\ shown.unknown_flags.called )
    => /\ shown.flag_names.value = <<>>
       /\ Len(shown.unknown_flags.value) = 32

\* C16 as amended: a record with flags 0xFFFFFFFF00000000 matches exactly
\* the named flag RESERVED (bit 32) and get_unknown_flags returns the 31 bit
\* positions 33..63, in increasing order.
C16_HighWordReservedAnd31Unknown ==
    (mode = "classify" /\ page.flags = HighWord)
    => /\ shown.flag_names.called =>
             shown.flag_names.value = <<"RESERVED">>
       /\ shown.unknown_flags.called =>
             shown.unknown_flags.value = [i \in 1..31 |-> 32 + i]

C16_Witness ==
    /\ mode = "classify"
    /\ page.flags = HighWord
    /\ shown.flag_names = Returned(<<"RESERVED">>)
    /\ Len(shown.unknown_flags.value) = 31

\* C17: when /proc/kpageflags is missing or cannot be opened, main makes no
\* read of the table, tries once, runs no scan and returns an error to its
\* caller.
C17_MissingTableIsHardFailure ==
    kpageflags \in {"missing", "unopenable"}
    => /\ loc.reads = 0
       /\ pc \in {"main", "new", "returned"}
       /\ pc = "returned" => exit_status = "Err"

----------------------------------------------------------------------------
(* Properties of the extrapolation.                                        *)

\* raw_count x estimated_max_pfn / samples_collected, truncated
ExactEstimate(raw_count) ==
    (raw_count * loc.estimated_max_pfn) \div loc.successful_reads

----------------------------------------------------------------------------
(* Properties of the explorer.                                             *)

\* 0.1 <= z <= 10.0
ZoomWithinBounds(z) == ~F64Lt(z, F64OneTenth) /\ ~F64Lt(F64Ten, z)

\* the cell is one of the grid
InGrid(point, area) ==
    /\ point[1] >= area.x
    /\ point[1] < area.x + area.width
    /\ point[2] >= area.y
    /\ point[2] < area.y + area.height

Abs(n) == IF n >= 0 THEN n ELSE -n

\* width and height in cells of the rectangle between two cells
SelectionWidth(start, end) == Abs(end[1] - start[1]) + 1

SelectionHeight(start, end) == Abs(end[2] - start[2]) + 1

\* min(grid_width / selection_width, grid_height / selection_height)
\* clamped to [0.1, 10.0]
SelectionZoom(area, start, end) ==
    LET by_width  == F64Div(F64FromInt(area.width),
                            F64FromInt(SelectionWidth(start, end)))
        by_height == F64Div(F64FromInt(area.height),
                            F64FromInt(SelectionHeight(start, end)))
        least     == IF F64Lt(by_height, by_width) THEN by_height ELSE by_width
    IN  IF F64Lt(F64Ten, least) THEN F64Ten
        ELSE IF F64Lt(least, F64OneTenth) THEN F64OneTenth
        ELSE least

\* the step is the release of the pointer at a cell of the grid that ends
\* a selection in progress
ReleasedAt(point) ==
    /\ pc = "run"
    /\ app.mouse_selecting
    /\ ~app'.mouse_selecting
    /\ InGrid(point, app.grid_area.value)
    /\ app' = handle_mouse_event(app, MouseEvent("Up", point[1], point[2]))

\* C18: after any sequence of zoom, scroll, reset and selection events
\* zoom_level is within [0.1, 10.0], and the release that ends a selection
\* wider and taller than one cell sets zoom_level to
\* min(grid_width / selection_width, grid_height / selection_height)
\* clamped to that interval.
C18_ZoomClampedAndSetBySelection ==
    /\ [](ZoomWithinBounds(app.zoom_level))
    /\ [][\A point \in MousePoints :
            ( /\ app.mouse_selecting
              /\ SelectionWidth(app.selection_start.value, point) > 1
              /\ SelectionHeight(app.selection_start.value, point) > 1
              /\ ReleasedAt(point) )
            => app'.zoom_level = SelectionZoom(app.grid_area.value,
                                              app.selection_start.value,
                                              point)]_vars

\* a 2 x 2 selection of the 54 x 16 grid has set the zoom to 8.0
C18_Witness ==
    /\ pc = "run"
    /\ app.grid_area = Just(Rect(1, 4, 54, 16))
    /\ ~app.mouse_selecting
    /\ app.zoom_level = F64FromInt(8)

\* C19: after any sequence of pan, zoom, reset and selection events
\* offset_x >= 0 and offset_y >= 0.
C19_OffsetsNeverNegative == app.offset_x >= 0 /\ app.offset_y >= 0

\* the set of categories of the catalog flags set in a record
CategorySet(p) == {PAGE_FLAGS[i].category : i \in {j \in FlagIdx : PAGE_FLAGS[j].bit \in p.flags}}

\* the subsequence of the loaded records whose category set contains the
\* category, in the original order
FilteredRecords(pages, category) ==
    SelectSeq(pages, LAMBDA p : category \in CategorySet(p))

\* the frame on the screen shows the grid over the records: they are the
\* sequence its cells index (CellAt)
GridOperatesOver(records) ==
    /\ shown.grid.some
    /\ shown.grid.value.filtered_pages = records

\* the frame on the screen shows the statistics of the records
StatisticsOperateOver(records) ==
    shown.stats.some =>
        /\ shown.stats.value.total_pages = Len(records)
        /\ shown.stats.value.pages_with_flags =
               Cardinality({k \in 1..Len(records) : records[k].flags # {}})
        /\ \A i \in FlagIdx :
               shown.stats.value.flag_counts[i] =
                   Cardinality({k \in 1..Len(records) :
                                   PAGE_FLAGS[i].bit \in records[k].flags})

\* a frame of the grid drawn while a category filter is set
FilteredFrame ==
    /\ pc = "run"
    /\ app.filter_category.some
    /\ ~shown.help

\* C20: when a category filter is set, the grid and the statistics panel
\* both operate over exactly the subsequence of the loaded records whose
\* category set contains the filter category, in the original order, and
\* the grid indexes that subsequence.
C20_FilterAppliesToGridAndStatistics ==
    FilteredFrame =>
        LET records == FilteredRecords(app.pages, app.filter_category.value)
        IN  GridOperatesOver(records) /\ StatisticsOperateOver(records)

\* the grid alone shows the filtered records
GridShowsFilteredRecords ==
    FilteredFrame =>
        GridOperatesOver(FilteredRecords(app.pages, app.filter_category.value))

\* the last event was the release of the pointer at a cell of the grid,
\* handled while a selection was in progress
ReleasedInGrid ==
    /\ pc = "run"
    /\ loc.last.kind = "Up"
    /\ loc.before.mouse_selecting
    /\ InGrid(<<loc.last.column, loc.last.row>>, loc.before.grid_area.value)

\* the width and height of the selection the last event completed
ReleasedWidth ==
    SelectionWidth(loc.before.selection_start.value,
                   <<loc.last.column, loc.last.row>>)

ReleasedHeight ==
    SelectionHeight(loc.before.selection_start.value,
                    <<loc.last.column, loc.last.row>>)

\* the last event left zoom and offsets as they were
ViewUnchanged ==
    /\ app.zoom_level = loc.before.zoom_level
    /\ app.offset_x = loc.before.offset_x
    /\ app.offset_y = loc.before.offset_y

NoSelection ==
    /\ ~app.mouse_selecting
    /\ ~app.selection_start.some
    /\ ~app.selection_end.some

\* the last event was Escape, pressed while a selection was in progress
EscapePressed ==
    /\ pc = "run"
    /\ loc.last.kind = "Key"
    /\ loc.before.mouse_selecting

\* the last event was the release of the pointer outside the grid,
\* handled while a selection was in progress
ReleasedOutsideGrid ==
    /\ pc = "run"
    /\ loc.last.kind = "Up"
    /\ loc.before.mouse_selecting
    /\ ~InGrid(<<loc.last.column, loc.last.row>>, loc.before.grid_area.value)

\* C22: while a selection is in progress, Escape or the release of the
\* pointer outside the grid cancels it: afterwards no selection is active
\* and zoom and offsets are unchanged.
C22_EscapeOrOutsideReleaseCancels ==
    (EscapePressed \/ ReleasedOutsideGrid) => (NoSelection /\ ViewUnchanged)

\* Escape alone cancels the selection and leaves the view
EscapeCancels == EscapePressed => (NoSelection /\ ViewUnchanged)

\* the release outside the grid leaves the selection in progress
OutsideReleaseKeepsSelection ==
    ReleasedOutsideGrid => (app.mouse_selecting /\ ViewUnchanged)

----------------------------------------------------------------------------
(* Further properties of the census reader.                                *)

Readable(t, p) == read_page_flags(t, p).res = "Some"

\* the PFNs a sequential scan is asked for: those of the range, or every
\* PFN from the start where no count is given
RequestedPfns ==
    IF count = NoCount THEN start_pfn..(TableLen - 1)
    ELSE start_pfn..(start_pfn + count - 1)

\* no hole of [first, p) is as long as the threshold: no
\* MAX_CONSECUTIVE_FAILURES PFNs in a row of it fail
ShortHolesOnly(t, first, p) ==
    \A a \in first..(p - MAX_CONSECUTIVE_FAILURES) :
        \E q \in a..(a + MAX_CONSECUTIVE_FAILURES - 1) : Readable(t, q)

\* the scan read p and kept it: its record is returned, or the summary
\* scan went past it and counted every readable PFN up to where it is
ReadAndKept(p) ==
    IF mode = "scan_for_summary_only"
    THEN /\ p < loc.pfn
         /\ loc.total_pages = Cardinality({q \in start_pfn..(loc.pfn - 1) : Readable(table, q)})
    ELSE \E k \in 1..Len(loc.pages) : loc.pages[k].pfn = p

\* a sequential scan has returned and neither the flag nor the safety
\* limit ended it
ScanRanItsCourse ==
    /\ mode \in SequentialModes
    /\ pc = "done"
    /\ loc.exit \notin {"interrupt", "safety"}

C24_InterruptedOnlyWhenFlagObserved ==
    (pc = "done" /\ status_msg.kind = "interrupted") => loc.exit = "interrupt"

\* the catalog positions of the flags of each category, in catalog order
MemberFlags == [c \in CategoryIdx |-> SelectSeq([i \in 1..Len(PAGE_FLAGS) |-> i], LAMBDA i : PAGE_FLAGS[i].category = FlagCategory[c + 1])]

\* the sum of the per-flag counters at the first n positions of members
RECURSIVE SumOfMemberFlags(_, _, _)
SumOfMemberFlags(counts, members, n) ==
    IF n = 0 THEN 0
    ELSE SumOfMemberFlags(counts, members, n - 1) + counts[members[n]]

CountingScan == mode \in {"scan_for_summary_only", "scan_sampled_summary"}

\* C25: at every step of a summary scan or of a sampling scan, the counter
\* of each category equals the sum of the counters of the catalog flags
\* that belong to that category.
C25_CategoryCounterIsSumOfItsFlags ==
    CountingScan =>
        \A c \in CategoryIdx :
            loc.category_counts[c]
                = SumOfMemberFlags(loc.flag_counts, MemberFlags[c],
                                   Len(MemberFlags[c]))

\* a sampling scan has counted two records with two flags of one category
C25_Witness ==
    /\ mode = "scan_sampled_summary"
    /\ loc.pages_with_flags = 2
    /\ \E c \in CategoryIdx : loc.category_counts[c] = 4

\* the counting loop of print_category_summary over the records of a full
\* scan, main.rs:1303-1310: a category absent from the HashMap counts 0
print_category_summary(pages) ==
    [c \in CategoryIdx |->
        Cardinality({k \in 1..Len(pages) :
            Contains(get_flag_categories(pages[k]), FlagCategory[c + 1])})]

\* C26: with the flag never set, the per-category totals of the summary
\* scan equal those print_category_summary computes over the records
\* Mode A/B returns for the same table, start_pfn and count.
C26_SummaryCategoriesMatchFullScan ==
    ( /\ mode = "scan_for_summary_only"
      /\ pc = "done"
      /\ ~interrupt_flag )
    => loc.category_counts
           = print_category_summary(FullScan(table, start_pfn, count))

----------------------------------------------------------------------------
(* Properties of the probing estimator.                                    *)

BracketWidth(s) == s.high - s.low

\* a round was entered with a width above 1000 and left a smaller width
RoundNarrows ==
    (pc = "search" /\ pc' = "search")
    => /\ BracketWidth(loc) > 1000
       /\ BracketWidth(loc') < BracketWidth(loc)
       /\ loc.low <= loc'.low /\ loc'.low < loc'.high /\ loc'.high <= loc.high

\* the function returned from a bracket of width at most 1000, and what it
\* returned is the last readable PFN probed plus 10000, or 1,000,000
ReturnedCeiling ==
    pc = "done"
    => /\ BracketWidth(loc) <= 1000
       /\ \/ loc.last_valid = 0
          \/ read_page_flags_const(table, loc.last_valid).res = "Some"
       /\ loc.estimated_max_pfn >= loc.last_valid + 10000
       /\ loc.estimated_max_pfn >= 1000000
       /\ loc.estimated_max_pfn \in {loc.last_valid + 10000, 1000000}

\* C27: the probing estimator terminates for every file, the empty one
\* included: from the bracket [0, 100,000,000) every round leaves a
\* strictly narrower bracket, the loop ends at a width of at most 1000 and
\* the function returns max(last valid probed PFN + 10000, 1,000,000).
C27_EstimatorTerminates ==
    /\ <>(pc = "done")
    /\ [][RoundNarrows]_vars
    /\ []ReturnedCeiling

\* the estimator returned the floor for the empty file
C27_Witness ==
    /\ pc = "done"
    /\ table = {}
    /\ loc.estimated_max_pfn = 1000000

\* the readable PFNs of the file are exactly [0, n), 0 < n <= 100,000,000
ReadableExactly(n) == table = Prefix(n) /\ 0 < n /\ n <= 100000000

\* C28: for a file whose readable PFNs are exactly [0, N), with
\* 0 < N <= 100,000,000, the ceiling the estimator returns is at least N.
C28_EstimatorErrsWide ==
    pc = "done"
    => \A r \in table :
          ReadableExactly(r.to) => loc.estimated_max_pfn >= r.to

\* the estimator returned for a file longer than the floor of 1,000,000
C28_Witness ==
    /\ pc = "done"
    /\ \E r \in table : ReadableExactly(r.to) /\ r.to > 1000000
    /\ loc.estimated_max_pfn > 1000000

----------------------------------------------------------------------------
(* Properties of get_flag_categories.                                      *)

\* the category names in the order of their Debug names
NamesInOrder == <<"Allocation", "Error", "IO", "Memory", "Special", "State", "Structure", "Usage">>

NameRank(c) == CHOOSE k \in 1..Len(NamesInOrder) : NamesInOrder[k] = c

\* the categories with at least one catalog flag set in the record
MatchingCategories(p) ==
    {PAGE_FLAGS[i].category : i \in {j \in FlagIdx : PAGE_FLAGS[j].bit \in p.flags}}

\* C29: for any flags value get_flag_categories returns each category that
\* has at least one matching flag exactly once, in the order of the category
\* names, also when matching flags of one category are apart in the catalog.
C29_CategoriesOnceAndOrdered ==
    shown.called
    => LET cs == shown.value
       IN  /\ {cs[i] : i \in 1..Len(cs)} = MatchingCategories(page)
           /\ \A i, j \in 1..Len(cs) :
                 i < j => NameRank(cs[i]) < NameRank(cs[j])

\* LOCKED | ERROR | UPTODATE: two State flags with an Error flag between
\* them in the catalog
C29_Witness ==
    /\ shown.called
    /\ page.flags = {0, 1, 3}
    /\ shown.value = <<"Error", "State">>

----------------------------------------------------------------------------
(* I/O errors on single records.                                           *)

SequentialScan == mode \in {"read_range", "read_all_pages", "scan_for_summary_only"}

\* what a scan has collected: records, totals and counters
Collected(s) == <<s.pages, s.total_pages, s.successful_reads, s.pages_with_flags, s.flag_counts, s.category_counts>>

\* the body of a sequential scan ran on a PFN whose read fails with an I/O
\* error: the failure is counted, nothing is collected, and the loop ends
\* only if the run of failures exceeds the threshold
ErrorCountedAsFailure ==
    ( /\ SequentialScan
      /\ pc = "read" /\ pc' # "read"
      /\ read_page_flags(table, loc.pfn) = Err )
    => /\ loc'.consecutive_failures = loc.consecutive_failures + 1
       /\ Collected(loc') = Collected(loc)
       /\ IF loc.consecutive_failures + 1 > MAX_CONSECUTIVE_FAILURES
          THEN pc' = "exited" /\ loc'.exit = "failures"
          ELSE pc' = "loop" /\ loc'.exit = "running" /\ loc'.pfn = loc.pfn + 1

\* the body of the sampling scan ran and took no sample: the draw is an
\* attempt and nothing else, and the loop goes on
ErrorSkippedAsAttempt ==
    ( /\ mode = "scan_sampled_summary"
      /\ pc = "read" /\ pc' # "read"
      /\ loc.estimated_max_pfn > 0
      /\ loc'.successful_reads = loc.successful_reads )
    => /\ loc' = [loc EXCEPT !.attempts = loc.attempts + 1,
                             !.reads = loc.reads + 1]
       /\ pc' = "loop"

\* the same step on the table with every failing record made absent
AsAbsent(t) == [p \in DOMAIN t |-> IF t[p] = Err THEN None ELSE t[p]]

SameAsAbsent ==
    (pc = "read" /\ pc' # "read" /\ SequentialScan)
    => loc' = CASE mode = "read_range" ->
                      read_range_iter(AsAbsent(table), loc, start_pfn + count, FALSE)
                [] mode = "read_all_pages" ->
                      read_all_pages_iter(AsAbsent(table), loc, FALSE)
                [] OTHER ->
                      scan_for_summary_only_iter(AsAbsent(table), loc, EndPfn(start_pfn, count), FALSE)

\* C30: an I/O error on a single record never aborts a scan, in any mode:
\* the ranged, unbounded and summary scans count it as one more consecutive
\* failure, exactly as an absent record, the sampling scan skips it as a
\* failed attempt, and the scan goes on to return its result.
C30_ReadErrorNeverAborts ==
    [][ErrorCountedAsFailure /\ ErrorSkippedAsAttempt /\ SameAsAbsent]_vars

\* a summary scan met a failing record first, went on, counted the records
\* after it and reported completion
C30_Witness ==
    /\ mode = "scan_for_summary_only"
    /\ pc = "done"
    /\ start_pfn = 0
    /\ table[0] = Err
    /\ loc.total_pages >= 1
    /\ status_msg.kind = "completed"

----------------------------------------------------------------------------
(* Properties of the background scan.                                      *)

\* C31: once the background scan has started, and as long as the loop of
\* the explorer keeps going round, the explorer eventually leaves
\* BackgroundScanning (scanning is false), and from Idle no round takes it
\* back to BackgroundScanning.
C31_ScanEventuallyIdle ==
    /\ app.scanning ~> ~app.scanning
    /\ [][~app.scanning => ~app'.scanning]_vars

\* the scan that began at the start of the explorer is over
C31_Witness ==
    /\ loc.last = "tick"
    /\ ~app.scanning
    /\ ~F64Lt(app.scan_progress, F64One)

\* a round without an event, taken while the explorer is scanning
ScanningTick == app.scanning /\ loc'.last = "tick"

\* C32: on every tick in which the explorer is BackgroundScanning it reads
\* the next chunk of records with read_range and appends what it read to
\* the loaded records, of which none is removed or moved.
C32_ScanningTickLoadsNextChunk ==
    [][ScanningTick =>
          /\ Len(loc'.requests) = 1
          /\ app'.pages = app.pages \o read_range(table, loc'.requests[1].start, loc'.requests[1].count, FALSE)]_vars

\* no tick removes or moves a loaded record
TickKeepsLoaded == [][loc'.last = "tick" => IsPrefix(app.pages, app'.pages)]_vars

\* a tick that reads a chunk appends exactly what it read
LoadingTickAppends ==
    [][(ScanningTick /\ loc'.requests # <<>>) =>
          app'.pages = app.pages \o read_range(table, loc'.requests[1].start, loc'.requests[1].count, FALSE)]_vars

\* C33: every load of records the explorer issues in a round (the first
\* load, a chunk of the scan, a refresh) asks for at most 10,000 records.
C33_LoadsAtMostOneChunk ==
    \A i \in 1..Len(loc.requests) : loc.requests[i].count <= 10000

\* the loads of the scan itself keep to 10,000 records
ScanLoadsAtMostOneChunk ==
    loc.last # "refresh" => C33_LoadsAtMostOneChunk

\* C34: after any ticks and refreshes, over any table, the loaded records
\* are in strictly increasing order of PFN, so that no PFN is loaded twice.
C34_LoadedRecordsStrictlyIncreasing ==
    \A i \in 1..(Len(app.pages) - 1) : app.pages[i].pfn < app.pages[i + 1].pfn

\* over a table without holes before its end the order is kept
NoHoles == \A p \in DOMAIN table : table[p].res # "Some" => \A q \in DOMAIN table : q > p => table[q].res # "Some"

IncreasingWithoutHoles == NoHoles => C34_LoadedRecordsStrictlyIncreasing

----------------------------------------------------------------------------
(* Properties of the recentring.                                           *)

\* the bounds of the selection the last event completed, relative to the
\* grid
ReleasedBounds ==
    SelectionBounds(loc.before.selection_start.value, <<loc.last.column, loc.last.row>>, loc.before.grid_area.value)

ReleasedCenterX == (ReleasedBounds.min_x + ReleasedBounds.max_x) \div 2

ReleasedCenterY == (ReleasedBounds.min_y + ReleasedBounds.max_y) \div 2

\* the offsets before the clamp at 0, under the zoom the selection set
UnclampedOffsetX ==
    F64ToInt(F64Div(F64FromInt(ReleasedCenterX), app.zoom_level)) - (app.grid_area.value.width \div 2)

UnclampedOffsetY ==
    F64ToInt(F64Div(F64FromInt(ReleasedCenterY), app.zoom_level)) - (app.grid_area.value.height \div 2)

\* the index the cell at the midpoint of the selection had in the frame the
\* selection was made in
MidpointIndexBefore ==
    page_idx(render_grid(loc.before, loc.before.grid_area.value), ReleasedCenterY, ReleasedCenterX)

\* the index of the cell in the middle of the grid in the frame drawn
\* after the selection
MiddleIndexAfter ==
    page_idx(shown.grid.value, app.grid_area.value.height \div 2, app.grid_area.value.width \div 2)

\* C35: after a selection wider and taller than one cell is completed, the
\* cell of the records that was at the midpoint of the selection is the
\* one drawn in the middle of the grid, unless an offset was clamped at 0.
C35_SelectionMidpointCentred ==
    ( /\ ReleasedInGrid
      /\ ReleasedWidth > 1 /\ ReleasedHeight > 1
      /\ UnclampedOffsetX >= 0 /\ UnclampedOffsetY >= 0 )
    => MiddleIndexAfter = MidpointIndexBefore

\* completed in a view that was not panned, the same selection centres its
\* midpoint
CentredFromOrigin ==
    ( /\ ReleasedInGrid
      /\ ReleasedWidth > 1 /\ ReleasedHeight > 1
      /\ UnclampedOffsetX >= 0 /\ UnclampedOffsetY >= 0
      /\ loc.before.offset_x = 0 /\ loc.before.offset_y = 0
      /\ loc.before.zoom_level = F64One )
    => MiddleIndexAfter = MidpointIndexBefore

\* a selection that recentres without a clamp was completed
RecentredUnclamped ==
    /\ ReleasedInGrid
    /\ ReleasedWidth > 1 /\ ReleasedHeight > 1
    /\ UnclampedOffsetX >= 0 /\ UnclampedOffsetY >= 0
    /\ loc.before.offset_x = 0 /\ loc.before.offset_y = 0
    /\ loc.before.zoom_level = F64One

----------------------------------------------------------------------------
(* The index computation of the grid.                                      *)

\* the start index of the frame is not a negative value taken as usize
StartIndexNotWrapped == shown.grid.some => shown.grid.value.start_idx >= 0

\* C36: in every view that pans, zooms, resets and selections reach, the
\* index of a cell, offset_y * pages_per_row + offset_x + row *
\* pages_per_row + col, neither overflows nor wraps: no frame panics on it
\* and no frame starts from a wrapped index.
C36_GridIndexNeitherOverflowsNorWraps ==
    /\ pc # "panic"
    /\ StartIndexNotWrapped

\* a cell is drawn from a record only if its index is inside the filtered
\* records
CellsInsideFilteredRecords ==
    (pc = "run" /\ shown.grid.some) =>
        LET grid == shown.grid.value
        IN  \A row \in {0, grid.rows - 1}, col \in {0, grid.cols - 1} :
               CellAt(grid, row, col) \in 0..Len(grid.filtered_pages)

----------------------------------------------------------------------------
(* Properties of ContinuousMonitor.                                        *)

IsSuffix(a, b) ==
    /\ Len(a) <= Len(b)
    /\ \A i \in 1..Len(a) : a[i] = b[Len(b) - Len(a) + i]

\* a caller has called a method that takes the mutex of the snapshots
CallerSaw == shown.op \in {"get_snapshots", "get_latest", "get_trend_analysis", "clear"}

\* C37: with the sampling thread running next to the callers of
\* get_snapshots, get_latest, get_trend_analysis and clear, no caller sees
\* more than max_snapshots stored snapshots, and what it sees are the most
\* recent of the snapshots pushed, oldest first.
C37_CallersSeeBoundedRecentSnapshots ==
    CallerSaw =>
        /\ Len(shown.stored) <= app.max_snapshots
        /\ IsSuffix(shown.stored, shown.pushed)
        /\ shown.op = "get_snapshots" => shown.value = Just(shown.stored)
        /\ (shown.op = "get_latest" /\ shown.stored # <<>>) =>
               shown.value = Just(shown.pushed[Len(shown.pushed)])

\* get_snapshots saw a full queue from which the oldest snapshots had been
\* dropped
C37_Witness ==
    /\ shown.op = "get_snapshots"
    /\ app.max_snapshots = MaxStored
    /\ Len(shown.stored) = MaxStored
    /\ Len(shown.pushed) > MaxStored

\* the window_size most recent of the snapshots a call saw, oldest first
SeenWindow == SubSeq(shown.stored, Len(shown.stored) - shown.arg + 1, Len(shown.stored))

\* C39: get_trend_analysis(w) returns None when fewer than w snapshots are
\* stored; otherwise it analyses the w most recent snapshots in the order
\* they were taken: initial_value is that of the oldest of them,
\* final_value that of the newest, change their difference, and
\* duration_ms the newest timestamp less the oldest.
C39_TrendOverRecentWindowInOrder ==
    shown.op = "get_trend_analysis" =>
        IF Len(shown.stored) < shown.arg THEN shown.value = Nothing
        ELSE /\ shown.value.some
             /\ shown.value.value.sample_count = shown.arg
             /\ shown.arg > 0 =>
                   LET oldest == SeenWindow[1]
                       newest == SeenWindow[shown.arg]
                       trend == shown.value.value.free_memory_trend
                   IN  /\ trend.initial_value = oldest.mem_free
                       /\ trend.final_value = newest.mem_free
                       /\ trend.change = newest.mem_free - oldest.mem_free
                       /\ shown.value.value.duration_ms = newest.timestamp - oldest.timestamp

\* None for a window larger than the queue, and a window of the right size
TrendWindowSize ==
    shown.op = "get_trend_analysis" =>
        IF Len(shown.stored) < shown.arg THEN shown.value = Nothing
        ELSE shown.value.some /\ shown.value.value.sample_count = shown.arg

----------------------------------------------------------------------------
(* Properties of EventMonitor.                                             *)

Reported(name) == \E k \in 1..Len(shown.triggered_events) : shown.triggered_events[k] = name

\* C38: check_conditions is edge-triggered: a check reports the name of a
\* condition exactly when the condition holds in that check and did not
\* hold in the check before, or was not checked before; so it is not
\* reported again while it keeps holding and is reported again once it has
\* not held in a check.
C38_ConditionsAreEdgeTriggered ==
    shown.op = "check_conditions" =>
        /\ \A i \in 1..Len(app.conditions) :
              Reported(app.conditions[i].name)
                  <=> (loc.now[i] = "held" /\ loc.before[i] # "held")
        /\ Len(shown.triggered_events) <= Len(app.conditions)

\* a condition is reported that held two checks ago, did not hold in the
\* check before, and holds again
C38_Witness ==
    /\ shown.op = "check_conditions"
    /\ Len(app.conditions) = MaxConditions
    /\ \E i \in 1..Len(app.conditions) :
          /\ loc.now[i] = "held"
          /\ loc.before[i] = "not_held"
          /\ Reported(app.conditions[i].name)
    /\ \E i \in 1..Len(app.conditions) :
          /\ loc.now[i] = "held"
          /\ loc.before[i] = "held"
          /\ ~Reported(app.conditions[i].name)

====
